---- MODULE Spec2Model ----
(***************************************************************************)
(* Real-time session coordination layer of the live audio sanctuary:       *)
(* the SanctuarySessionStateManager (session state, participant roster,    *)
(* emergency alerts, analytics, voice state, all kept in the keyed cache)  *)
(* and the Socket.io gateway handlers that drive it.                       *)
(*                                                                         *)
(* An async function runs synchronously up to its first await; what comes  *)
(* after the await is a continuation that the event loop runs later, in    *)
(* FIFO order.  Every handler is therefore one action for its synchronous  *)
(* part plus one task in the queue `tasks` per continuation.               *)
(***************************************************************************)
EXTENDS Integers, Sequences, FiniteSets, TLC

(* ------------------------------ bounds --------------------------------- *)
MaxTasks == 1
MaxVersion == 2
MaxClock == 1
MaxEvents == 1
MaxMessages == 2
MaxEventAppends == 1002
MaxAlerts == 1
MaxAlertAppends == 52
MaxInFlight == 2
MaxJoins == 2

(* ------------------------- program constants --------------------------- *)
AlertCap == 50
AnalyticsCap == 1000
OverviewEvents == 10

Sessions == {"s1", "s2"}
Sockets == {"k1", "k2", "k3"}
\* the credential each socket presents in its handshake: none, or a token
\* that verifies as a known user
Credential == [k \in Sockets |-> IF k = "k1" THEN "none" ELSE "u1"]
AnonId(k) == "anonymous_" \o k
UserIds == {AnonId(k) : k \in Sockets} \cup {"u1"}
ParticipantIds == {"p1", "p2"}
Statuses == {"connected", "disconnected"}

VARIABLES
    keys,          \* keys present in the cache: <<prefix, sessionId>>
    sessionState,  \* value under sanctuary_session:<id>
    roster,        \* value under sanctuary_participants:<id>
    alerts,        \* value under sanctuary_emergency:<id>
    analytics,     \* value under sanctuary_analytics:<id>
    voice,         \* <<sessionId, participantId>> with a sanctuary_voice key
    now,           \* Date.now()
    tasks,         \* continuations waiting behind an await, FIFO
    alertCalls,    \* setEmergencyAlert calls since the alert key was created
    last,          \* the last call or event and what it returned (history)
    open,          \* io.sockets.sockets: the connected sockets, in connection order
    closed,        \* the sockets that have disconnected
    userId,        \* socket.userId
    rooms,         \* the rooms each socket is in
    currentSanctuary,      \* socket.currentSanctuary
    currentAudioRoom,      \* socket.currentAudioRoom
    currentSanctuaryHost,  \* socket.currentSanctuaryHost
    emitted,       \* the messages the last handler step delivered: to, ev, s
    handReq,       \* the last raise-hand request per roster entry (history)
    vmod,          \* the VoiceModulation documents, by session and participant
    apiKeySet,     \* process.env.ELEVENLABS_API_KEY is configured
    reply,         \* the last voice route request and its HTTP response
    sched,         \* the ScheduledSanctuary document
    liveSessions,  \* ids of the LiveSanctuarySession documents saved
    reqs,          \* the HTTP requests on the scheduled sanctuary, by slot
    chatDb,        \* number of SanctuaryMessage documents of the chat session
    chatCache,     \* messages in the cached page of the session, -1: no key
    chatReads,     \* the GET messages requests in flight, by slot
    chatSends,     \* the sends in flight, by HTTP slot or socket
    chatLog        \* sends finished; the last answer from the cache (history)

gvars == <<open, closed, userId, rooms, currentSanctuary, currentAudioRoom,
           currentSanctuaryHost, emitted, handReq>>

avars == <<vmod, apiKeySet, reply>>

dvars == <<sched, liveSessions, reqs>>

cvars == <<chatDb, chatCache, chatReads, chatSends, chatLog>>

vars == <<keys, sessionState, roster, alerts, analytics, voice, now, tasks,
          alertCalls, last, gvars, avars, dvars, cvars>>

(* ------------------------------ helpers -------------------------------- *)
Range(seq) == {seq[i] : i \in 1..Len(seq)}

Min(a, b) == IF a < b THEN a ELSE b

\* Array.prototype.filter with the predicate "id differs from pid"
FilterOutId(parts, pid) == SelectSeq(parts, LAMBDA p : p.id # pid)

\* Array.prototype.filter with the predicate "status is connected / active"
CountStatus(seq, st) == Len(SelectSeq(seq, LAMBDA p : p.status = st))

\* Array.prototype.slice(-n)
SliceLast(seq, n) ==
    IF Len(seq) <= n THEN seq ELSE SubSeq(seq, Len(seq) - n + 1, Len(seq))

Ids(parts) == {parts[i].id : i \in 1..Len(parts)}

(* --------------------------- the keyed cache --------------------------- *)
NoState == [version |-> 0, hasMetrics |-> FALSE, participantCount |-> 0,
            activeParticipants |-> 0, lastUpdated |-> 0]

Has(prefix, s) == <<prefix, s>> \in keys

\* cacheService.get(key): the stored value, undefined when the key is absent
GetSessionState(s) == sessionState[s]
\* cacheService.get(participantsKey) || []
GetParticipants(s) == IF Has("participants", s) THEN roster[s] ELSE <<>>
\* cacheService.get(emergencyKey) || []
GetEmergencyAlerts(s) == IF Has("emergency", s) THEN alerts[s] ELSE <<>>
\* cacheService.get(analyticsKey) || []
GetSessionAnalytics(s) == IF Has("analytics", s) THEN analytics[s] ELSE <<>>

\* a continuation: of updateSessionMetrics (kind metrics: has, snap are what
\* getSessionState read, count and active the new metrics; then names the
\* handler continuation that awaits it), of join_sanctuary (join_emit) or
\* of sanctuary_raise_hand (hand_emit)
NoTask == [kind |-> "none", s |-> "s1", has |-> FALSE, snap |-> NoState,
           count |-> 0, active |-> 0, then |-> "none", k |-> "none",
           raised |-> FALSE, parts |-> <<>>]

NoOverview == [afterCleanup |-> FALSE, hasState |-> FALSE, state |-> NoState,
               participants |-> <<>>, alerts |-> <<>>, analytics |-> <<>>,
               totalParticipants |-> 0, activeAlerts |-> 0,
               sessionVersion |-> 0]

\* op, s, id: the call; alert: the alert id of a resolveEmergencyAlert call;
\* pre: the roster before it; rt: a removeParticipant
\* that directly follows an addParticipant of the same id; quiet: no
\* continuation was pending when the call was made
NoLast == [op |-> "none", s |-> "s1", id |-> "p1", rt |-> FALSE, pre |-> <<>>,
           quiet |-> FALSE, overview |-> NoOverview, k |-> "none",
           target |-> "none", alert |-> 0 - 1]

(* ------------------- SanctuarySessionStateManager ---------------------- *)

\* setSessionState: the value written is the argument with lastUpdated
\* stamped and version set to (state.version || 0) + 1
SessionStateWritten(state) ==
    [state EXCEPT !.lastUpdated = now, !.version = state.version + 1]

\* updateSessionMetrics after its await: state is what getSessionState read
\* when the call was made; nothing is written when there was no state
MetricsMerged(snap, count, active) ==
    [snap EXCEPT !.hasMetrics = TRUE, !.participantCount = count,
                 !.activeParticipants = active]

\* the roster addParticipant writes
AddedRosterNoFilter(parts, p) ==
    Append(parts, [p EXCEPT !.joinedAt = now, !.lastSeen = now,
                            !.status = "connected"])

AddedRosterKeepsEntry(parts, p) ==
    IF p.id \in Ids(parts) THEN parts
    ELSE Append(parts, [p EXCEPT !.joinedAt = now, !.lastSeen = now,
                                 !.status = "connected"])

AddedRoster(parts, p) ==
    Append(FilterOutId(parts, p.id),
           [p EXCEPT !.joinedAt = now, !.lastSeen = now, !.status = "connected"])

\* the roster removeParticipant writes
RemovedRosterKeepsId(parts, pid) == SelectSeq(parts, LAMBDA p : p.id = pid)

RemovedRoster(parts, pid) == FilterOutId(parts, pid)

\* the roster updateParticipantStatus writes
StatusRosterAll(parts, pid, status, raised) ==
    [i \in 1..Len(parts) |->
        [parts[i] EXCEPT !.status = status, !.handRaised = raised,
                         !.lastSeen = now]]

StatusRosterMovesEntry(parts, pid, status, raised) ==
    FilterOutId(parts, pid) \o
    [i \in 1..Len(SelectSeq(parts, LAMBDA p : p.id = pid)) |->
        [SelectSeq(parts, LAMBDA p : p.id = pid)[i] EXCEPT
            !.status = status, !.handRaised = raised, !.lastSeen = now]]

StatusRoster(parts, pid, status, raised) ==
    [i \in 1..Len(parts) |->
        IF parts[i].id = pid
        THEN [parts[i] EXCEPT !.status = status, !.handRaised = raised,
                              !.lastSeen = now]
        ELSE parts[i]]

\* a task for the continuation of updateSessionMetrics
MetricsTask(s, parts) ==
    [NoTask EXCEPT !.kind = "metrics", !.s = s, !.has = Has("session", s),
        !.snap = IF Has("session", s) THEN GetSessionState(s) ELSE NoState,
        !.count = Len(parts), !.active = CountStatus(parts, "connected")]

CanCall(s) ==
    /\ Len(tasks) < MaxTasks
    /\ sessionState[s].version < MaxVersion

\* the participant objects callers hand to addParticipant
ParticipantInputs ==
    {[id |-> i, socketId |-> "api", role |-> r, isMuted |-> TRUE,
      handRaised |-> FALSE, status |-> "connected", joinedAt |-> 0,
      lastSeen |-> 0] : i \in ParticipantIds, r \in {"participant"}}

\* router.post('/sessions/:sessionId/state'): the body's state object
StateInputs ==
    {[version |-> v, hasMetrics |-> FALSE, participantCount |-> 0,
      activeParticipants |-> 0, lastUpdated |-> 0] : v \in 0..1}

SetSessionState(s, state) ==
    /\ state.version < MaxVersion
    /\ keys' = keys \cup {<<"session", s>>}
    /\ sessionState' = [sessionState EXCEPT ![s] = SessionStateWritten(state)]
    /\ last' = [NoLast EXCEPT !.op = "setState", !.s = s]
    /\ UNCHANGED gvars
    /\ UNCHANGED <<roster, alerts, analytics, voice, now, tasks, alertCalls>>
    /\ UNCHANGED avars
    /\ UNCHANGED cvars
    /\ UNCHANGED dvars

AddParticipant(s, p) ==
    /\ CanCall(s)
    /\ LET updatedParticipants == AddedRoster(GetParticipants(s), p)
       IN /\ roster' = [roster EXCEPT ![s] = updatedParticipants]
          /\ keys' = keys \cup {<<"participants", s>>}
          /\ tasks' = Append(tasks, MetricsTask(s, updatedParticipants))
          /\ last' = [NoLast EXCEPT !.op = "add", !.s = s, !.id = p.id,
                                     !.pre = GetParticipants(s)]
    /\ UNCHANGED gvars
    /\ UNCHANGED <<sessionState, alerts, analytics, voice, now, alertCalls>>
    /\ UNCHANGED avars
    /\ UNCHANGED cvars
    /\ UNCHANGED dvars

RemoveParticipant(s, pid) ==
    /\ CanCall(s)
    /\ LET updatedParticipants == RemovedRoster(GetParticipants(s), pid)
       IN /\ roster' = [roster EXCEPT ![s] = updatedParticipants]
          /\ keys' = keys \cup {<<"participants", s>>}
          /\ tasks' = Append(tasks, MetricsTask(s, updatedParticipants))
          /\ last' = [NoLast EXCEPT
                        !.op = "remove", !.s = s, !.id = pid,
                        !.rt = (last.op = "add" /\ last.s = s /\ last.id = pid),
                        !.pre = IF last.op = "add" /\ last.s = s /\ last.id = pid
                                THEN last.pre ELSE <<>>]
    /\ UNCHANGED gvars
    /\ UNCHANGED <<sessionState, alerts, analytics, voice, now, alertCalls>>
    /\ UNCHANGED avars
    /\ UNCHANGED cvars
    /\ UNCHANGED dvars

UpdateParticipantStatus(s, pid, status, raised) ==
    /\ roster' = [roster EXCEPT ![s] =
                    StatusRoster(GetParticipants(s), pid, status, raised)]
    /\ keys' = keys \cup {<<"participants", s>>}
    /\ last' = [NoLast EXCEPT !.op = "status", !.s = s, !.id = pid]
    /\ UNCHANGED gvars
    /\ UNCHANGED <<sessionState, alerts, analytics, voice, now, tasks,
                   alertCalls>>
    /\ UNCHANGED avars
    /\ UNCHANGED cvars
    /\ UNCHANGED dvars

\* updateParticipantStatus with the metadata {isMuted: muted}
MutedRoster(parts, pid, status, muted) ==
    [i \in 1..Len(parts) |->
        IF parts[i].id = pid
        THEN [parts[i] EXCEPT !.status = status, !.isMuted = muted,
                              !.lastSeen = now]
        ELSE parts[i]]

UpdateParticipantMuted(s, pid, muted) ==
    /\ roster' = [roster EXCEPT ![s] =
                    MutedRoster(GetParticipants(s), pid, "connected", muted)]
    /\ keys' = keys \cup {<<"participants", s>>}
    /\ last' = [NoLast EXCEPT !.op = "status", !.s = s, !.id = pid]
    /\ UNCHANGED gvars
    /\ UNCHANGED <<sessionState, alerts, analytics, voice, now, tasks,
                   alertCalls>>
    /\ UNCHANGED avars
    /\ UNCHANGED cvars
    /\ UNCHANGED dvars

\* the continuation of updateSessionMetrics at the head of the queue
RunMetrics ==
    /\ tasks # <<>>
    /\ Head(tasks).kind = "metrics"
    /\ LET t == Head(tasks)
       IN IF t.has
          THEN /\ sessionState' = [sessionState EXCEPT ![t.s] =
                    SessionStateWritten(MetricsMerged(t.snap, t.count, t.active))]
               /\ keys' = keys \cup {<<"session", t.s>>}
          ELSE UNCHANGED <<sessionState, keys>>
    /\ tasks' = IF Head(tasks).then = "none" THEN Tail(tasks)
                ELSE Append(Tail(tasks), [Head(tasks) EXCEPT
                                            !.kind = Head(tasks).then,
                                            !.then = "none"])
    /\ UNCHANGED gvars
    /\ UNCHANGED <<roster, alerts, analytics, voice, now, alertCalls, last>>
    /\ UNCHANGED avars
    /\ UNCHANGED cvars
    /\ UNCHANGED dvars

\* alerts.splice(0, alerts.length - 50) when alerts.length > 50
TrimmedAlertsDropNewest(seq) ==
    IF Len(seq) > AlertCap THEN SubSeq(seq, 1, AlertCap) ELSE seq

TrimmedAlerts(seq) ==
    IF Len(seq) > AlertCap
    THEN SubSeq(seq, Len(seq) - AlertCap + 1, Len(seq)) ELSE seq

\* the number of the next event of a buffer in the order of appends
NextEventSeq(events) ==
    IF Len(events) = 0 THEN 1 ELSE events[Len(events)].seq + 1

TrimmedEventsKeepsOldest(seq) ==
    IF Len(seq) > AnalyticsCap
    THEN <<seq[1]>> \o SubSeq(seq, Len(seq) - AnalyticsCap + 2, Len(seq))
    ELSE seq

\* events.splice(0, events.length - 1000) when events.length > 1000
TrimmedEvents(seq) ==
    IF Len(seq) > AnalyticsCap
    THEN SubSeq(seq, Len(seq) - AnalyticsCap + 1, Len(seq)) ELSE seq

\* setEmergencyAlert: id from the clock, status active; seq is the number
\* of the call that created the alert (history field)
SetEmergencyAlert(s, type, maxCalls) ==
    /\ alertCalls[s] < maxCalls
    /\ LET newAlert == [id |-> now, type |-> type, timestamp |-> now,
                        status |-> "active", seq |-> alertCalls[s] + 1]
       IN alerts' = [alerts EXCEPT ![s] =
                        TrimmedAlerts(Append(GetEmergencyAlerts(s), newAlert))]
    /\ keys' = keys \cup {<<"emergency", s>>}
    /\ alertCalls' = [alertCalls EXCEPT ![s] = @ + 1]
    /\ last' = [NoLast EXCEPT !.op = "alert", !.s = s]
    /\ UNCHANGED gvars
    /\ UNCHANGED <<sessionState, roster, analytics, voice, now, tasks>>
    /\ UNCHANGED avars
    /\ UNCHANGED cvars
    /\ UNCHANGED dvars

ResolvedAlertsAll(seq, alertId) ==
    [i \in 1..Len(seq) |-> [seq[i] EXCEPT !.status = "resolved"]]

\* resolveEmergencyAlert: every alert whose id matches becomes resolved
ResolvedAlerts(seq, alertId) ==
    [i \in 1..Len(seq) |->
        IF seq[i].id = alertId THEN [seq[i] EXCEPT !.status = "resolved"]
        ELSE seq[i]]

ResolveEmergencyAlert(s, alertId) ==
    /\ alerts' = [alerts EXCEPT ![s] =
                    ResolvedAlerts(GetEmergencyAlerts(s), alertId)]
    /\ keys' = keys \cup {<<"emergency", s>>}
    /\ last' = [NoLast EXCEPT !.op = "resolve", !.s = s, !.alert = alertId]
    /\ UNCHANGED gvars
    /\ UNCHANGED <<sessionState, roster, analytics, voice, now, tasks,
                   alertCalls>>
    /\ UNCHANGED avars
    /\ UNCHANGED cvars
    /\ UNCHANGED dvars

\* trackEvent; seq is the number of the event in the order of appends
\* (history field)
TrackEvent(s, type, maxEvents) ==
    /\ NextEventSeq(GetSessionAnalytics(s)) <= maxEvents
    /\ analytics' = [analytics EXCEPT ![s] =
          TrimmedEvents(Append(GetSessionAnalytics(s),
                               [type |-> type, timestamp |-> now,
                                seq |-> NextEventSeq(GetSessionAnalytics(s))]))]
    /\ keys' = keys \cup {<<"analytics", s>>}
    /\ last' = [NoLast EXCEPT !.op = "event", !.s = s]
    /\ UNCHANGED gvars
    /\ UNCHANGED <<sessionState, roster, alerts, voice, now, tasks,
                   alertCalls>>
    /\ UNCHANGED avars
    /\ UNCHANGED cvars
    /\ UNCHANGED dvars

VoiceKeyFirstParticipant(s, pid) == <<s, "p1">>

\* the key `${voicePrefix}${sessionId}:${participantId}` of a voice entry
VoiceKey(s, pid) == <<s, pid>>

\* setVoiceModulation / removeVoiceModulation
SetVoiceModulation(s, pid) ==
    /\ voice' = voice \cup {VoiceKey(s, pid)}
    /\ last' = [NoLast EXCEPT !.op = "voiceOn", !.s = s, !.id = pid]
    /\ UNCHANGED gvars
    /\ UNCHANGED <<keys, sessionState, roster, alerts, analytics, now, tasks, alertCalls>>
    /\ UNCHANGED avars
    /\ UNCHANGED cvars
    /\ UNCHANGED dvars

RemoveVoiceModulation(s, pid) ==
    /\ voice' = voice \ {VoiceKey(s, pid)}
    /\ last' = [NoLast EXCEPT !.op = "voiceOff", !.s = s, !.id = pid]
    /\ UNCHANGED gvars
    /\ UNCHANGED <<keys, sessionState, roster, alerts, analytics, now, tasks, alertCalls>>
    /\ UNCHANGED avars
    /\ UNCHANGED cvars
    /\ UNCHANGED dvars

\* getSessionOverview: the four reads are made when the call is made
ActiveAlertsAll(seq) == seq

ActiveAlerts(seq) == SelectSeq(seq, LAMBDA a : a.status = "active")

GetSessionOverview(s) ==
    /\ last' = [NoLast EXCEPT !.op = "overview", !.s = s,
          !.pre = IF last.op = "cleanup" /\ last.s = s THEN last.pre ELSE <<>>,
          !.overview =
          [afterCleanup |-> (last.op = "cleanup" /\ last.s = s /\ last.quiet),
           hasState |-> Has("session", s),
           state |-> IF Has("session", s) THEN GetSessionState(s) ELSE NoState,
           participants |-> GetParticipants(s),
           alerts |-> ActiveAlerts(GetEmergencyAlerts(s)),
           analytics |-> SliceLast(GetSessionAnalytics(s), OverviewEvents),
           totalParticipants |-> Len(GetParticipants(s)),
           activeAlerts |-> Len(ActiveAlerts(GetEmergencyAlerts(s))),
           sessionVersion |-> IF Has("session", s)
                              THEN GetSessionState(s).version ELSE 0]]
    /\ UNCHANGED gvars
    /\ UNCHANGED <<keys, sessionState, roster, alerts, analytics, voice, now,
                   tasks, alertCalls>>
    /\ UNCHANGED avars
    /\ UNCHANGED cvars
    /\ UNCHANGED dvars

\* cleanupSession: the keys it deletes one by one
CleanupKeysNoAnalytics(s) ==
    {<<"session", s>>, <<"participants", s>>, <<"emergency", s>>}

CleanupKeysNoRoster(s) ==
    {<<"session", s>>, <<"emergency", s>>, <<"analytics", s>>}

CleanupKeys(s) ==
    {<<"session", s>>, <<"participants", s>>, <<"emergency", s>>,
     <<"analytics", s>>}

\* cacheService.keys(`sanctuary_voice:<sessionId>:.*`): the voice keys of
\* the session
VoiceKeysOf(s) == {v \in voice : v[1] = s}

\* cacheService.delete(key): the key is gone, a later get finds nothing
Deleted(f, prefix, ks, default) ==
    [s \in Sessions |-> IF <<prefix, s>> \in ks THEN default ELSE f[s]]

CleanupSession(s) ==
    /\ keys' = keys \ CleanupKeys(s)
    /\ sessionState' = Deleted(sessionState, "session", CleanupKeys(s), NoState)
    /\ roster' = Deleted(roster, "participants", CleanupKeys(s), <<>>)
    /\ alerts' = Deleted(alerts, "emergency", CleanupKeys(s), <<>>)
    /\ alertCalls' = Deleted(alertCalls, "emergency", CleanupKeys(s), 0)
    /\ analytics' = Deleted(analytics, "analytics", CleanupKeys(s), <<>>)
    /\ voice' = voice \ VoiceKeysOf(s)
    /\ last' = [NoLast EXCEPT !.op = "cleanup", !.s = s, !.rt = TRUE,
                               !.pre = GetParticipants(s),
                               !.quiet = (tasks = <<>>)]
    /\ UNCHANGED gvars
    /\ UNCHANGED <<now, tasks>>
    /\ UNCHANGED avars
    /\ UNCHANGED cvars
    /\ UNCHANGED dvars

\* a key's time-to-live runs out: the key is unreadable from then on
ExpireKey(prefix, s) ==
    /\ <<prefix, s>> \in keys
    /\ keys' = keys \ {<<prefix, s>>}
    /\ sessionState' = Deleted(sessionState, "session", {<<prefix, s>>}, NoState)
    /\ roster' = Deleted(roster, "participants", {<<prefix, s>>}, <<>>)
    /\ alerts' = Deleted(alerts, "emergency", {<<prefix, s>>}, <<>>)
    /\ alertCalls' = Deleted(alertCalls, "emergency", {<<prefix, s>>}, 0)
    /\ analytics' = Deleted(analytics, "analytics", {<<prefix, s>>}, <<>>)
    /\ last' = [NoLast EXCEPT !.op = "expire", !.s = s]
    /\ UNCHANGED gvars
    /\ UNCHANGED <<voice, now, tasks>>
    /\ UNCHANGED avars
    /\ UNCHANGED cvars
    /\ UNCHANGED dvars

\* Date.now() moves on
Tick ==
    /\ now < MaxClock
    /\ now' = now + 1
    /\ UNCHANGED gvars
    /\ UNCHANGED <<keys, sessionState, roster, alerts, analytics, voice, tasks, alertCalls, last>>
    /\ UNCHANGED avars
    /\ UNCHANGED cvars
    /\ UNCHANGED dvars

(* ------------------------- the socket gateway -------------------------- *)
\* the SanctuarySession documents: the host token of a session and its owner
SanctuaryDocs ==
    [s \in Sessions |-> IF s = "s1" THEN [hostToken |-> "HT1", hostId |-> "u1"]
                        ELSE [hostToken |-> "HT2", hostId |-> "u2"]]
HostTokens == {"HT1", "bad"}
\* the socket that asks for the host channel
HostCandidates == {"k1"}
AudioSessions == {"s1"}

Connected == Range(open)
IsAnonymous(k) == Credential[k] = "none"

\* the sockets an emit to a room reaches
InRoom(room, rms) == {k \in Connected : room \in rms[k]}

\* an emit that reaches the sender as well; see ToRoom
ToRoomWithSender(room, rms, k, ev, s) ==
    {[to |-> o, ev |-> ev, s |-> s] : o \in InRoom(room, rms)}

\* socket.to(room).emit(ev): every socket of the room but the sender
ToRoom(room, rms, k, ev, s) ==
    {[to |-> o, ev |-> ev, s |-> s] : o \in InRoom(room, rms) \ {k}}

\* io.to(room).emit(ev): every socket of the room
ToAll(room, rms, ev, s) ==
    {[to |-> o, ev |-> ev, s |-> s] : o \in InRoom(room, rms)}

\* the first connected socket, whatever its user; see FindSocket
FindSocketFirstOpen(id) ==
    IF open = <<>> THEN "none" ELSE open[1]

\* Array.from(io.sockets.sockets.values()).find(s => s.userId === id)
FindSocket(id) ==
    LET idx == {i \in 1..Len(open) : userId[open[i]] = id}
    IN IF idx = {} THEN "none"
       ELSE open[CHOOSE i \in idx : \A j \in idx : i <= j]

\* io.use: no token gives an anonymous identity made from the socket id
Connect(k) ==
    /\ k \notin Connected
    /\ k \notin closed
    /\ open' = Append(open, k)
    /\ userId' = [userId EXCEPT ![k] =
                    IF Credential[k] = "none" THEN AnonId(k) ELSE Credential[k]]
    /\ emitted' = {}
    /\ last' = [NoLast EXCEPT !.op = "connect"]
    /\ UNCHANGED <<keys, sessionState, roster, alerts, analytics, voice, now,
                   tasks, alertCalls, closed, rooms, currentSanctuary,
                   currentAudioRoom, currentSanctuaryHost, handReq>>
    /\ UNCHANGED avars
    /\ UNCHANGED cvars
    /\ UNCHANGED dvars

\* the handshake tokens: none sent, the empty string, a JWT of the known
\* user u1, a JWT of a user the database does not hold, a JWT whose payload
\* has no user field, and a token jwt.verify throws on
Tokens == {"none", "empty", "u1", "u9", "nouser", "forged"}
KnownUsers == {"u1"}

\* jwt.verify(token, secret) and decoded.user.id: the user id, or "throws"
DecodedUser(token) ==
    IF token \in {"forged", "nouser"} THEN "throws" ELSE token

\* io.use with every user found; see Authenticate
AuthenticateNoLookup(k, token) ==
    IF token \in {"none", "empty"}
    THEN [ok |-> TRUE, userId |-> AnonId(k), isAnonymous |-> TRUE]
    ELSE IF DecodedUser(token) = "throws"
    THEN [ok |-> FALSE, userId |-> "none", isAnonymous |-> FALSE]
    ELSE [ok |-> TRUE, userId |-> DecodedUser(token), isAnonymous |-> FALSE]

\* io.use: a falsy token gives an anonymous identity; a token that fails to
\* verify, or whose user is not found, calls next with an error
Authenticate(k, token) ==
    IF token \in {"none", "empty"}
    THEN [ok |-> TRUE, userId |-> AnonId(k), isAnonymous |-> TRUE]
    ELSE IF DecodedUser(token) = "throws"
    THEN [ok |-> FALSE, userId |-> "none", isAnonymous |-> FALSE]
    ELSE IF DecodedUser(token) \notin KnownUsers
    THEN [ok |-> FALSE, userId |-> "none", isAnonymous |-> FALSE]
    ELSE [ok |-> TRUE, userId |-> DecodedUser(token), isAnonymous |-> FALSE]

\* a handshake with any token: the socket connects or is refused; a refused
\* socket id is never seen again
Handshake(k, token) ==
    /\ k \notin Connected
    /\ k \notin closed
    /\ LET r == Authenticate(k, token)
       IN /\ IF r.ok
             THEN /\ open' = Append(open, k)
                  /\ userId' = [userId EXCEPT ![k] = r.userId]
                  /\ UNCHANGED closed
             ELSE /\ closed' = closed \cup {k}
                  /\ UNCHANGED <<open, userId>>
          /\ last' = [NoLast EXCEPT !.op = "handshake", !.k = k,
                                    !.id = token, !.rt = r.ok]
    /\ emitted' = {}
    /\ UNCHANGED <<keys, sessionState, roster, alerts, analytics, voice, now,
                   tasks, alertCalls, rooms, currentSanctuary,
                   currentAudioRoom, currentSanctuaryHost, handReq>>
    /\ UNCHANGED avars
    /\ UNCHANGED cvars
    /\ UNCHANGED dvars

\* join_sanctuary up to the await inside addParticipant
ParticipantData(k, role) ==
    [id |-> userId[k], socketId |-> k, role |-> role, isMuted |-> TRUE,
     handRaised |-> FALSE, status |-> "connected", joinedAt |-> 0,
     lastSeen |-> 0]

PendingJoins(s) ==
    Len(SelectSeq(tasks, LAMBDA t : t.s = s /\ "join_emit" \in {t.kind, t.then}))

JoinSanctuary(k, s, role) ==
    /\ k \in Connected
    /\ Len(tasks) < MaxInFlight
    /\ sessionState[s].version < MaxVersion
    /\ Len(GetSessionAnalytics(s)) + PendingJoins(s) < MaxJoins
    /\ rooms' = [rooms EXCEPT ![k] = @ \cup {<<"sanctuary", s>>}]
    /\ currentSanctuary' = [currentSanctuary EXCEPT ![k] = s]
    /\ LET updatedParticipants ==
              AddedRoster(GetParticipants(s), ParticipantData(k, role))
       IN /\ roster' = [roster EXCEPT ![s] = updatedParticipants]
          /\ tasks' = Append(tasks,
                [MetricsTask(s, updatedParticipants) EXCEPT
                    !.then = "join_emit", !.k = k,
                    !.parts = updatedParticipants])
    /\ keys' = keys \cup {<<"participants", s>>}
    /\ handReq' = [handReq EXCEPT ![s][userId[k]] = "none"]
    /\ emitted' = {}
    /\ last' = [NoLast EXCEPT !.op = "join", !.k = k, !.s = s,
                               !.pre = GetParticipants(s)]
    /\ UNCHANGED <<sessionState, alerts, analytics, voice, now, alertCalls, open,
                   closed, userId, currentAudioRoom, currentSanctuaryHost>>
    /\ UNCHANGED avars
    /\ UNCHANGED cvars
    /\ UNCHANGED dvars

\* join_sanctuary with a payload that has no participant field: the handler
\* joins the room and sets the marker, then participant.alias throws before
\* addParticipant is called
JoinSanctuaryNoParticipant(k, s) ==
    /\ k \in Connected
    /\ rooms' = [rooms EXCEPT ![k] = @ \cup {<<"sanctuary", s>>}]
    /\ currentSanctuary' = [currentSanctuary EXCEPT ![k] = s]
    /\ emitted' = {}
    /\ last' = [NoLast EXCEPT !.op = "join_bad", !.k = k, !.s = s,
                               !.pre = GetParticipants(s)]
    /\ UNCHANGED <<keys, sessionState, roster, alerts, analytics, voice, now,
                   tasks, alertCalls, open, closed, userId, currentAudioRoom,
                   currentSanctuaryHost, handReq>>
    /\ UNCHANGED avars
    /\ UNCHANGED cvars
    /\ UNCHANGED dvars

\* join_sanctuary after addParticipant has returned: the two emits and the
\* synchronous part of trackEvent
JoinEmit ==
    /\ tasks # <<>>
    /\ Head(tasks).kind = "join_emit"
    /\ LET t == Head(tasks)
       IN /\ emitted' =
                ToRoom(<<"sanctuary", t.s>>, rooms, t.k, "participant_joined", t.s)
                \cup (IF t.k \in Connected
                      THEN {[to |-> t.k, ev |-> "participants_list", s |-> t.s]}
                      ELSE {})
          /\ analytics' = [analytics EXCEPT ![t.s] =
                TrimmedEvents(Append(GetSessionAnalytics(t.s),
                    [type |-> "participant_joined", timestamp |-> now,
                     seq |-> NextEventSeq(GetSessionAnalytics(t.s))]))]
          /\ keys' = keys \cup {<<"analytics", t.s>>}
          /\ last' = [NoLast EXCEPT !.op = "join_emit", !.s = t.s, !.k = t.k,
                                    !.pre = t.parts]
    /\ tasks' = Tail(tasks)
    /\ UNCHANGED <<sessionState, roster, alerts, voice, now, alertCalls, open,
                   closed, userId, rooms, currentSanctuary, currentAudioRoom,
                   currentSanctuaryHost, handReq>>
    /\ UNCHANGED avars
    /\ UNCHANGED cvars
    /\ UNCHANGED dvars

\* join_audio_room
JoinAudioRoom(k, s) ==
    /\ k \in Connected
    /\ rooms' = [rooms EXCEPT ![k] = @ \cup {<<"audio_room", s>>}]
    /\ currentAudioRoom' = [currentAudioRoom EXCEPT ![k] = s]
    /\ emitted' = ToRoom(<<"audio_room", s>>, rooms', k,
                         "audio_participant_joined", s)
    /\ last' = [NoLast EXCEPT !.op = "join_audio"]
    /\ UNCHANGED <<keys, sessionState, roster, alerts, analytics, voice, now,
                   tasks, alertCalls, open, closed, userId, currentSanctuary,
                   currentSanctuaryHost, handReq>>
    /\ UNCHANGED avars
    /\ UNCHANGED cvars
    /\ UNCHANGED dvars

\* the HostSession documents: the grant issued with HT1 runs out once the
\* clock has moved; HG2 is a grant that is not on the session document and
\* runs out as well; HG3 was deactivated
HostSessions ==
    {[sanctuaryId |-> "s1", hostToken |-> "HT1", isActive |-> TRUE, expiresAt |-> 1],
     [sanctuaryId |-> "s1", hostToken |-> "HG2", isActive |-> TRUE, expiresAt |-> 1],
     [sanctuaryId |-> "s1", hostToken |-> "HG3", isActive |-> FALSE, expiresAt |-> 1]}
\* the tokens a socket may present when it asks for a host channel
GrantTokens == {"none", "HT1", "HG2", "HG3", "bad"}

\* join_sanctuary_host: the host token of the session document, or a live
\* HostSession grant for the token, or the authenticated user being the
\* session's hostId
\* join_sanctuary_host with the ownership check left out; see HostAuthorized
HostAuthorizedTokenOnly(k, s, token) ==
    \/ token # "none" /\ SanctuaryDocs[s].hostToken = token
    \/ /\ token # "none"
       /\ \E g \in HostSessions :
             /\ g.sanctuaryId = s /\ g.hostToken = token
             /\ g.isActive /\ g.expiresAt > now

HostAuthorized(k, s, token) ==
    \/ token # "none" /\ SanctuaryDocs[s].hostToken = token
    \/ /\ token # "none"
       /\ \E g \in HostSessions :
             /\ g.sanctuaryId = s /\ g.hostToken = token
             /\ g.isActive /\ g.expiresAt > now
    \/ ~IsAnonymous(k) /\ SanctuaryDocs[s].hostId = userId[k]

JoinSanctuaryHost(k, s, token) ==
    /\ k \in Connected
    /\ IF HostAuthorized(k, s, token)
       THEN /\ rooms' = [rooms EXCEPT ![k] = @ \cup {<<"sanctuary_host", s>>}]
            /\ currentSanctuaryHost' = [currentSanctuaryHost EXCEPT ![k] = s]
            /\ emitted' = {[to |-> k, ev |-> "sanctuary_host_joined", s |-> s]}
       ELSE /\ emitted' = {[to |-> k, ev |-> "sanctuary_host_auth_failed",
                            s |-> s]}
            /\ UNCHANGED <<rooms, currentSanctuaryHost>>
    /\ last' = [NoLast EXCEPT !.op = "join_host", !.k = k, !.s = s,
                              !.id = token, !.rt = HostAuthorized(k, s, token)]
    /\ UNCHANGED <<keys, sessionState, roster, alerts, analytics, voice, now,
                   tasks, alertCalls, open, closed, userId, currentSanctuary,
                   currentAudioRoom, handReq>>
    /\ UNCHANGED avars
    /\ UNCHANGED cvars
    /\ UNCHANGED dvars

\* sanctuary_raise_hand up to its await: updateParticipantStatus has no
\* await of its own, its read and write of the roster are one step
RaiseHand(k, s, raised) ==
    /\ k \in Connected
    /\ Len(tasks) < MaxInFlight
    /\ roster' = [roster EXCEPT ![s] =
                    StatusRoster(GetParticipants(s), userId[k], "connected", raised)]
    /\ keys' = keys \cup {<<"participants", s>>}
    /\ tasks' = Append(tasks, [NoTask EXCEPT !.kind = "hand_emit", !.s = s,
                                             !.k = k, !.raised = raised])
    /\ handReq' = IF userId[k] \in Ids(GetParticipants(s))
                  THEN [handReq EXCEPT ![s][userId[k]] =
                            IF raised THEN "up" ELSE "down"]
                  ELSE handReq
    /\ emitted' = {}
    /\ last' = [NoLast EXCEPT !.op = "hand"]
    /\ UNCHANGED <<sessionState, alerts, analytics, voice, now, alertCalls, open,
                   closed, userId, rooms, currentSanctuary, currentAudioRoom,
                   currentSanctuaryHost>>
    /\ UNCHANGED avars
    /\ UNCHANGED cvars
    /\ UNCHANGED dvars

\* sanctuary_raise_hand after its await: the broadcast
HandEmit ==
    /\ tasks # <<>>
    /\ Head(tasks).kind = "hand_emit"
    /\ emitted' = ToRoom(<<"sanctuary", Head(tasks).s>>, rooms, Head(tasks).k,
                         "hand_raised", Head(tasks).s)
    /\ last' = [NoLast EXCEPT !.op = "hand_emit"]
    /\ tasks' = Tail(tasks)
    /\ UNCHANGED <<keys, sessionState, roster, alerts, analytics, voice, now,
                   alertCalls, open, closed, userId, rooms, currentSanctuary,
                   currentAudioRoom, currentSanctuaryHost, handReq>>
    /\ UNCHANGED avars
    /\ UNCHANGED cvars
    /\ UNCHANGED dvars

\* mute_participant
MuteParticipant(k, s, pid) ==
    /\ k \in Connected
    /\ emitted' = IF FindSocket(pid) # "none"
                  THEN {[to |-> FindSocket(pid), ev |-> "force_muted", s |-> s]}
                       \cup ToAll(<<"audio_room", s>>, rooms, "participant_muted", s)
                  ELSE {}
    /\ last' = [NoLast EXCEPT !.op = "mute", !.s = s, !.k = k, !.id = pid,
                              !.target = FindSocket(pid),
                              !.pre = GetParticipants(s)]
    /\ UNCHANGED <<keys, sessionState, roster, alerts, analytics, voice, now,
                   tasks, alertCalls, open, closed, userId, rooms,
                   currentSanctuary, currentAudioRoom, currentSanctuaryHost, handReq>>
    /\ UNCHANGED avars
    /\ UNCHANGED cvars
    /\ UNCHANGED dvars

\* kick_participant
KickParticipant(k, s, pid) ==
    /\ k \in Connected
    /\ LET targetSocket == FindSocket(pid)
       IN IF targetSocket # "none"
          THEN /\ rooms' = [rooms EXCEPT ![targetSocket] =
                                @ \ {<<"audio_room", s>>}]
               /\ emitted' =
                    {[to |-> targetSocket, ev |-> "kicked_from_room", s |-> s]}
                    \cup ToRoom(<<"audio_room", s>>, rooms', k,
                                "participant_kicked", s)
          ELSE /\ emitted' = {}
               /\ UNCHANGED rooms
    /\ last' = [NoLast EXCEPT !.op = "kick", !.s = s, !.k = k, !.id = pid,
                              !.target = FindSocket(pid),
                              !.pre = GetParticipants(s)]
    /\ UNCHANGED <<keys, sessionState, roster, alerts, analytics, voice, now,
                   tasks, alertCalls, open, closed, userId, currentSanctuary,
                   currentAudioRoom, currentSanctuaryHost, handReq>>
    /\ UNCHANGED avars
    /\ UNCHANGED cvars
    /\ UNCHANGED dvars

\* promote_to_speaker
PromoteToSpeaker(k, s, pid) ==
    /\ k \in Connected
    /\ emitted' = IF FindSocket(pid) # "none"
                  THEN {[to |-> FindSocket(pid), ev |-> "promoted_to_speaker",
                         s |-> s]}
                       \cup ToAll(<<"audio_room", s>>, rooms, "speaker_promoted", s)
                  ELSE {}
    /\ last' = [NoLast EXCEPT !.op = "promote", !.s = s, !.k = k, !.id = pid,
                              !.target = FindSocket(pid),
                              !.pre = GetParticipants(s)]
    /\ UNCHANGED <<keys, sessionState, roster, alerts, analytics, voice, now,
                   tasks, alertCalls, open, closed, userId, rooms,
                   currentSanctuary, currentAudioRoom, currentSanctuaryHost, handReq>>
    /\ UNCHANGED avars
    /\ UNCHANGED cvars
    /\ UNCHANGED dvars

\* request_voice_chat
RequestVoiceChat(k, s, pid) ==
    /\ k \in Connected
    /\ emitted' = IF FindSocket(pid) # "none"
                  THEN {[to |-> FindSocket(pid), ev |-> "voice_chat_request",
                         s |-> s]}
                  ELSE {}
    /\ last' = [NoLast EXCEPT !.op = "voice_request", !.s = s, !.k = k,
                              !.id = pid, !.target = FindSocket(pid),
                              !.pre = GetParticipants(s)]
    /\ UNCHANGED <<keys, sessionState, roster, alerts, analytics, voice, now,
                   tasks, alertCalls, open, closed, userId, rooms,
                   currentSanctuary, currentAudioRoom, currentSanctuaryHost, handReq>>
    /\ UNCHANGED avars
    /\ UNCHANGED cvars
    /\ UNCHANGED dvars

\* sanctuary_emergency_alert up to its await: setEmergencyAlert has no
\* await of its own and has written the alert log when it returns
EmergencyAlert(k, s, type) ==
    /\ k \in Connected
    /\ Len(tasks) < MaxInFlight
    /\ alertCalls[s] < MaxAlerts
    /\ LET newAlert == [id |-> now, type |-> type, timestamp |-> now,
                        status |-> "active", seq |-> alertCalls[s] + 1]
       IN alerts' = [alerts EXCEPT ![s] =
                        TrimmedAlerts(Append(GetEmergencyAlerts(s), newAlert))]
    /\ keys' = keys \cup {<<"emergency", s>>}
    /\ alertCalls' = [alertCalls EXCEPT ![s] = @ + 1]
    /\ tasks' = Append(tasks, [NoTask EXCEPT !.kind = "alert_emit", !.s = s,
                                             !.k = k])
    /\ emitted' = {}
    /\ last' = [NoLast EXCEPT !.op = "alert_raise", !.s = s, !.k = k]
    /\ UNCHANGED <<sessionState, roster, analytics, voice, now, open, closed,
                   userId, rooms, currentSanctuary, currentAudioRoom,
                   currentSanctuaryHost, handReq>>
    /\ UNCHANGED avars
    /\ UNCHANGED cvars
    /\ UNCHANGED dvars

\* sanctuary_emergency_alert after its await: the broadcast to the
\* sanctuary room
AlertEmit ==
    /\ tasks # <<>>
    /\ Head(tasks).kind = "alert_emit"
    /\ emitted' = ToAll(<<"sanctuary", Head(tasks).s>>, rooms,
                        "emergency_alert", Head(tasks).s)
    /\ last' = [NoLast EXCEPT !.op = "alert_emit", !.s = Head(tasks).s,
                              !.k = Head(tasks).k]
    /\ tasks' = Tail(tasks)
    /\ UNCHANGED <<keys, sessionState, roster, alerts, analytics, voice, now,
                   alertCalls, open, closed, userId, rooms, currentSanctuary,
                   currentAudioRoom, currentSanctuaryHost, handReq>>
    /\ UNCHANGED avars
    /\ UNCHANGED cvars
    /\ UNCHANGED dvars

\* disconnect: the socket has left its rooms when the handler runs; the
\* handler only notifies the rooms the socket joined last.  The fields of the
\* socket object are never read again and are forgotten here.
Disconnect(k) ==
    /\ k \in Connected
    /\ open' = SelectSeq(open, LAMBDA o : o # k)
    /\ closed' = closed \cup {k}
    /\ rooms' = [rooms EXCEPT ![k] = {}]
    /\ emitted' =
          (IF currentSanctuary[k] # "none"
           THEN {[to |-> o, ev |-> "participant_left", s |-> currentSanctuary[k]] :
                    o \in InRoom(<<"sanctuary", currentSanctuary[k]>>, rooms) \ {k}}
           ELSE {})
          \cup
          (IF currentAudioRoom[k] # "none"
           THEN {[to |-> o, ev |-> "audio_participant_left",
                  s |-> currentAudioRoom[k]] :
                    o \in InRoom(<<"audio_room", currentAudioRoom[k]>>, rooms) \ {k}}
           ELSE {})
    /\ currentSanctuary' = [currentSanctuary EXCEPT ![k] = "none"]
    /\ currentAudioRoom' = [currentAudioRoom EXCEPT ![k] = "none"]
    /\ currentSanctuaryHost' = [currentSanctuaryHost EXCEPT ![k] = "none"]
    /\ last' = [NoLast EXCEPT !.op = "disconnect"]
    /\ UNCHANGED <<keys, sessionState, roster, alerts, analytics, voice, now,
                   tasks, alertCalls, userId, handReq>>
    /\ UNCHANGED avars
    /\ UNCHANGED cvars
    /\ UNCHANGED dvars

(* --------------------------- the voice routes -------------------------- *)
\* the users that call the voice routes, the voice ids they send (vX is not
\* an available voice, the empty string fails validation) and the audio
\* they send (none: no audioData field)
AudioUsers == {"u1", "u2"}
AvailableVoices == {"v1", "v2"}
VoiceInputs == {"v1", "v2", "vX", ""}
AudioInputs == {"none", "", "a1", "a2"}
\* what the axios call to the voice backend does: an answer or an error
BackendOutcomes == {"ok", "error"}

\* the LiveSanctuarySession documents
LiveDocs ==
    [s \in Sessions |-> IF s = "s1" THEN [isActive |-> TRUE, participants |-> {"u1"}]
                        ELSE [isActive |-> FALSE, participants |-> {}]]

NoModulation == [exists |-> FALSE, elevenLabsVoiceId |-> "none", isActive |-> FALSE]

NoReply == [op |-> "none", s |-> "s1", u |-> "u1", audio |-> "none",
            found |-> FALSE, outcome |-> "ok", status |-> 0,
            processedAudio |-> "none", fallback |-> FALSE]

\* POST /sessions/:sessionId/modulation: the status it answers
SetModulationStatus(s, u, voiceId) ==
    IF voiceId = "" THEN 400
    ELSE IF ~LiveDocs[s].isActive THEN 404
    ELSE IF u \notin LiveDocs[s].participants THEN 403
    ELSE IF voiceId \notin AvailableVoices THEN 400
    ELSE 200

SetModulationRoute(s, u, voiceId) ==
    /\ IF SetModulationStatus(s, u, voiceId) = 200
       THEN /\ vmod' = [vmod EXCEPT ![<<s, u>>] =
                          [exists |-> TRUE, elevenLabsVoiceId |-> voiceId,
                           isActive |-> TRUE]]
            /\ emitted' = ToAll(<<"audio_room", s>>, rooms,
                                "voice_modulation_changed", s)
       ELSE /\ UNCHANGED vmod
            /\ emitted' = {}
    /\ reply' = [NoReply EXCEPT !.op = "set_modulation", !.s = s, !.u = u,
                                !.status = SetModulationStatus(s, u, voiceId)]
    /\ last' = [NoLast EXCEPT !.op = "set_modulation"]
    /\ UNCHANGED <<keys, sessionState, roster, alerts, analytics, voice, now,
                   tasks, alertCalls, open, closed, userId, rooms,
                   currentSanctuary, currentAudioRoom, currentSanctuaryHost,
                   handReq, apiKeySet>>
    /\ UNCHANGED dvars
    /\ UNCHANGED cvars

\* DELETE /sessions/:sessionId/modulation
DisableModulationRoute(s, u) ==
    /\ IF vmod[<<s, u>>].exists
       THEN /\ vmod' = [vmod EXCEPT ![<<s, u>>].isActive = FALSE]
            /\ emitted' = ToAll(<<"audio_room", s>>, rooms,
                                "voice_modulation_disabled", s)
       ELSE /\ UNCHANGED vmod
            /\ emitted' = {}
    /\ reply' = [NoReply EXCEPT !.op = "disable_modulation", !.s = s, !.u = u,
                                !.status = IF vmod[<<s, u>>].exists THEN 200
                                           ELSE 404]
    /\ last' = [NoLast EXCEPT !.op = "disable_modulation"]
    /\ UNCHANGED <<keys, sessionState, roster, alerts, analytics, voice, now,
                   tasks, alertCalls, open, closed, userId, rooms,
                   currentSanctuary, currentAudioRoom, currentSanctuaryHost,
                   handReq, apiKeySet>>
    /\ UNCHANGED dvars
    /\ UNCHANGED cvars

\* ElevenLabsService.voiceConversion: throws when the service is disabled
\* or the backend call fails, else returns the converted audio
VoiceConversion(audio, voiceId, enabled, outcome) ==
    IF ~enabled THEN [threw |-> TRUE, data |-> "none"]
    ELSE IF outcome = "error" THEN [threw |-> TRUE, data |-> "none"]
    ELSE [threw |-> FALSE, data |-> voiceId \o ":" \o audio]

\* process-audio with the inner catch answering an error; see AudioReply
AudioReplyNoFallback(doc, audio, enabled, outcome) ==
    IF ~(doc.exists /\ doc.isActive)
    THEN [status |-> 400, processedAudio |-> "none", fallback |-> FALSE]
    ELSE IF audio \in {"none", ""}
    THEN [status |-> 400, processedAudio |-> "none", fallback |-> FALSE]
    ELSE LET r == VoiceConversion(audio, doc.elevenLabsVoiceId, enabled, outcome)
         IN IF r.threw
            THEN [status |-> 500, processedAudio |-> "none", fallback |-> FALSE]
            ELSE [status |-> 200, processedAudio |-> r.data, fallback |-> FALSE]

\* POST /sessions/:sessionId/process-audio: what it answers
AudioReply(doc, audio, enabled, outcome) ==
    IF ~(doc.exists /\ doc.isActive)
    THEN [status |-> 400, processedAudio |-> "none", fallback |-> FALSE]
    ELSE IF audio \in {"none", ""}
    THEN [status |-> 400, processedAudio |-> "none", fallback |-> FALSE]
    ELSE LET r == VoiceConversion(audio, doc.elevenLabsVoiceId, enabled, outcome)
         IN IF r.threw
            THEN [status |-> 200, processedAudio |-> audio, fallback |-> TRUE]
            ELSE [status |-> 200, processedAudio |-> r.data, fallback |-> FALSE]

ProcessAudio(s, u, audio, outcome) ==
    /\ LET r == AudioReply(vmod[<<s, u>>], audio, apiKeySet, outcome)
       IN reply' = [op |-> "process_audio", s |-> s, u |-> u, audio |-> audio,
                    found |-> (vmod[<<s, u>>].exists /\ vmod[<<s, u>>].isActive),
                    outcome |-> outcome, status |-> r.status,
                    processedAudio |-> r.processedAudio,
                    fallback |-> r.fallback]
    /\ emitted' = {}
    /\ last' = [NoLast EXCEPT !.op = "process_audio"]
    /\ UNCHANGED <<keys, sessionState, roster, alerts, analytics, voice, now,
                   tasks, alertCalls, open, closed, userId, rooms,
                   currentSanctuary, currentAudioRoom, currentSanctuaryHost,
                   handReq, vmod, apiKeySet>>
    /\ UNCHANGED dvars
    /\ UNCHANGED cvars

(* --------------------------- the admin panel --------------------------- *)
\* the users of the database whose role is admin; none of the sockets is
\* one of them
AdminUsers == {"a1"}
\* data.userId of the join_admin_panel payload, "none" when it has none
AdminPayloads == {"none", "u1", "a1"}
AdminRoom == <<"admin_panel", "all">>

\* user.role of User.findOne({ id }), "none" when no user is found
UserRole(id) ==
    IF id \in AdminUsers THEN "admin"
    ELSE IF id \in KnownUsers THEN "user" ELSE "none"

\* join_admin_panel: the user of the socket is looked up; when it is not an
\* admin, the user named in the payload is looked up with role admin
AdminGranted(k, dataUserId) ==
    IF UserRole(userId[k]) = "admin" THEN TRUE
    ELSE dataUserId # "none" /\ UserRole(dataUserId) = "admin"

JoinAdminPanel(k, dataUserId) ==
    /\ k \in Connected
    /\ rooms' = IF AdminGranted(k, dataUserId)
                THEN [rooms EXCEPT ![k] = @ \cup {AdminRoom}] ELSE rooms
    /\ emitted' = {[to |-> k, ev |-> "admin_panel_joined", s |-> "all"]}
    /\ last' = [NoLast EXCEPT !.op = "join_admin", !.k = k,
                              !.id = dataUserId,
                              !.rt = AdminGranted(k, dataUserId)]
    /\ UNCHANGED <<keys, sessionState, roster, alerts, analytics, voice, now,
                   tasks, alertCalls, open, closed, userId, currentSanctuary,
                   currentAudioRoom, currentSanctuaryHost, handReq>>
    /\ UNCHANGED avars
    /\ UNCHANGED cvars
    /\ UNCHANGED dvars

(* ---------------------- the scheduled sanctuary ------------------------ *)
\* one ScheduledSanctuary document, its host and the users that call the
\* routes
SchedId == "sc1"
SchedHost == "h1"
SchedUsers == {"h1", "u1"}
SchedIdentifiers == {"sc1", "nope"}
\* scheduledDateTime and earlyJoinMinutes, in clock units
ScheduleTimes == {1, 2}
EarlyMinutes == {0, 1}

ScheduledDoc(status, at, early, allowEarly, requireAck) ==
    [status |-> status, liveId |-> "none", registered |-> <<>>,
     hostId |-> SchedHost, scheduledAt |-> at, earlyJoinMinutes |-> early,
     allowEarlyJoin |-> allowEarly, requireAck |-> requireAck]

\* the request slots: r1 and r2 carry start requests, r3 carries the join
\* requests one after the other
Requests == {"r1", "r2", "r3"}
NoReq == [pc |-> "idle", user |-> "none", sid |-> "none", pushed |-> FALSE,
          ack |-> FALSE, res |-> 0]

\* `live-sanctuary-${nanoid(8)}`: a fresh id for each start request
LiveId(r) == "live-" \o r

CanJoinAlways(doc, t) == TRUE

\* scheduledSanctuarySchema.methods.canJoin
CanJoin(doc, t) ==
    IF doc.status = "live" THEN TRUE
    ELSE IF doc.status \in {"ended", "cancelled"} THEN FALSE
    ELSE IF doc.allowEarlyJoin /\ t >= doc.scheduledAt - doc.earlyJoinMinutes
         THEN TRUE
    ELSE t >= doc.scheduledAt

\* POST /:identifier/start, the checks after the document is found: the
\* status of the response, 200 when the live session is to be created
StartOutcome(doc, u, ident, t) ==
    IF ident # SchedId THEN 404
    ELSE IF doc.hostId # u THEN 403
    ELSE IF doc.status = "live" THEN 400
    ELSE IF t < doc.scheduledAt - doc.earlyJoinMinutes THEN 400
    ELSE 200

\* POST /:identifier/start up to liveSession.save(): findOne reads the
\* document, the checks run on what was read
StartFind(r, u, ident) ==
    /\ reqs[r].pc = "idle"
    /\ reqs' = [reqs EXCEPT ![r] =
          IF StartOutcome(sched, u, ident, now) = 200
          THEN [NoReq EXCEPT !.pc = "live_save", !.user = u, !.sid = LiveId(r)]
          ELSE [NoReq EXCEPT !.pc = "done", !.user = u,
                             !.res = StartOutcome(sched, u, ident, now)]]
    /\ UNCHANGED <<sched, liveSessions>>
    /\ UNCHANGED <<keys, sessionState, roster, alerts, analytics, voice, now,
                   tasks, alertCalls, last>>
    /\ UNCHANGED gvars
    /\ UNCHANGED avars
    /\ UNCHANGED cvars

\* liveSession.save() completes; sanctuary.goLive(sessionId) is called
StartSaveLive(r) ==
    /\ reqs[r].pc = "live_save"
    /\ liveSessions' = liveSessions \cup {reqs[r].sid}
    /\ reqs' = [reqs EXCEPT ![r].pc = "doc_save"]
    /\ UNCHANGED sched
    /\ UNCHANGED <<keys, sessionState, roster, alerts, analytics, voice, now,
                   tasks, alertCalls, last>>
    /\ UNCHANGED gvars
    /\ UNCHANGED avars
    /\ UNCHANGED cvars

\* goLive: the save writes status and liveSanctuarySessionId; then the
\* broadcast to every socket and the response
StartGoLive(r) ==
    /\ reqs[r].pc = "doc_save"
    /\ sched' = [sched EXCEPT !.status = "live", !.liveId = reqs[r].sid]
    /\ reqs' = [reqs EXCEPT ![r].pc = "done", ![r].res = 200]
    /\ emitted' = {[to |-> o, ev |-> "scheduled_sanctuary_live", s |-> SchedId] :
                     o \in Connected}
    /\ UNCHANGED liveSessions
    /\ UNCHANGED <<keys, sessionState, roster, alerts, analytics, voice, now,
                   tasks, alertCalls, last>>
    /\ UNCHANGED <<open, closed, userId, rooms, currentSanctuary,
                   currentAudioRoom, currentSanctuaryHost, handReq>>
    /\ UNCHANGED avars
    /\ UNCHANGED cvars

\* POST /:identifier/join, the checks after the document is found: the
\* status of the response, 200 when the user is to be registered, 202 when
\* the acknowledgment is asked for
JoinOutcome(doc, ack, ident, t) ==
    IF ident # SchedId THEN 404
    ELSE IF doc.requireAck /\ ~ack THEN 202
    ELSE IF ~CanJoin(doc, t) THEN 400
    ELSE 200

\* POST /:identifier/join up to the save of addParticipant: the user is
\* pushed on the list that was read unless it is in it
JoinFind(r, u, ack, ident) ==
    /\ reqs[r].pc = "idle"
    /\ reqs' = [reqs EXCEPT ![r] =
          IF JoinOutcome(sched, ack, ident, now) = 200
          THEN [NoReq EXCEPT !.pc = "join_save", !.user = u, !.ack = ack,
                             !.pushed = (u \notin Range(sched.registered))]
          ELSE [NoReq EXCEPT !.user = u, !.ack = ack,
                             !.res = JoinOutcome(sched, ack, ident, now)]]
    /\ UNCHANGED <<sched, liveSessions>>
    /\ UNCHANGED <<keys, sessionState, roster, alerts, analytics, voice, now,
                   tasks, alertCalls, last>>
    /\ UNCHANGED gvars
    /\ UNCHANGED avars
    /\ UNCHANGED cvars

\* the save of addParticipant completes; the response
JoinSave(r) ==
    /\ reqs[r].pc = "join_save"
    /\ sched' = [sched EXCEPT !.registered =
                    IF reqs[r].pushed THEN Append(@, reqs[r].user) ELSE @]
    /\ reqs' = [reqs EXCEPT ![r].pc = "idle", ![r].res = 200]
    /\ UNCHANGED liveSessions
    /\ UNCHANGED <<keys, sessionState, roster, alerts, analytics, voice, now,
                   tasks, alertCalls, last>>
    /\ UNCHANGED gvars
    /\ UNCHANGED avars
    /\ UNCHANGED cvars

(* ------------------------- the session chat ---------------------------- *)
\* the messages of one live session, which exists and is active; the page
\* that is read is the first one and holds every message
ChatSession == "s1"
ChatReaders == {"g1", "g2"}
ChatPosts == {"p1"}
ChatSenders == ChatPosts \cup Sockets
NoChatLog == [finished |-> 0, served |-> 0 - 1, finishedAtServe |-> 0]

\* GET /sessions/:sessionId/messages after the session is found: the answer
\* comes from the cache when the key is there, else the query is issued
GetMessages(g) ==
    /\ chatReads[g].pc = "idle"
    /\ IF chatCache >= 0
       THEN /\ chatLog' = [chatLog EXCEPT !.served = chatCache,
                                          !.finishedAtServe = chatLog.finished]
            /\ UNCHANGED chatReads
       ELSE /\ chatReads' = [chatReads EXCEPT ![g].pc = "find"]
            /\ UNCHANGED chatLog
    /\ UNCHANGED <<chatDb, chatCache, chatSends>>
    /\ UNCHANGED <<keys, sessionState, roster, alerts, analytics, voice, now,
                   tasks, alertCalls, last>>
    /\ UNCHANGED gvars
    /\ UNCHANGED avars
    /\ UNCHANGED dvars

\* SanctuaryMessage.find(query) reads the collection
GetMessagesFind(g) ==
    /\ chatReads[g].pc = "find"
    /\ chatReads' = [chatReads EXCEPT ![g].pc = "store", ![g].snap = chatDb]
    /\ UNCHANGED <<chatDb, chatCache, chatSends, chatLog>>
    /\ UNCHANGED <<keys, sessionState, roster, alerts, analytics, voice, now,
                   tasks, alertCalls, last>>
    /\ UNCHANGED gvars
    /\ UNCHANGED avars
    /\ UNCHANGED dvars

\* after countDocuments: cacheService.set(cacheKey, responseData, 30) and
\* the answer
GetMessagesStore(g) ==
    /\ chatReads[g].pc = "store"
    /\ chatCache' = chatReads[g].snap
    /\ chatReads' = [chatReads EXCEPT ![g].pc = "idle", ![g].snap = 0]
    /\ UNCHANGED <<chatDb, chatSends, chatLog>>
    /\ UNCHANGED <<keys, sessionState, roster, alerts, analytics, voice, now,
                   tasks, alertCalls, last>>
    /\ UNCHANGED gvars
    /\ UNCHANGED avars
    /\ UNCHANGED dvars

\* POST /sessions/:sessionId/messages up to message.save(): the content and
\* membership checks
PostMessage(p, hasContent, isMember) ==
    /\ chatSends[p] = "idle"
    /\ chatDb < MaxMessages
    /\ hasContent /\ isMember
    /\ chatSends' = [chatSends EXCEPT ![p] = "save"]
    /\ UNCHANGED <<chatDb, chatCache, chatReads, chatLog>>
    /\ UNCHANGED <<keys, sessionState, roster, alerts, analytics, voice, now,
                   tasks, alertCalls, last>>
    /\ UNCHANGED gvars
    /\ UNCHANGED avars
    /\ UNCHANGED dvars

\* sanctuary_send_message up to message.save()
SendMessage(k) ==
    /\ k \in Connected
    /\ chatSends[k] = "idle"
    /\ chatDb < MaxMessages
    /\ chatSends' = [chatSends EXCEPT ![k] = "save"]
    /\ UNCHANGED <<chatDb, chatCache, chatReads, chatLog>>
    /\ UNCHANGED <<keys, sessionState, roster, alerts, analytics, voice, now,
                   tasks, alertCalls, last>>
    /\ UNCHANGED gvars
    /\ UNCHANGED avars
    /\ UNCHANGED dvars

\* message.save() writes the document
MessageSaved(x) ==
    /\ chatSends[x] = "save"
    /\ chatDb' = chatDb + 1
    /\ chatSends' = [chatSends EXCEPT ![x] = "saved"]
    /\ UNCHANGED <<chatCache, chatReads, chatLog>>
    /\ UNCHANGED <<keys, sessionState, roster, alerts, analytics, voice, now,
                   tasks, alertCalls, last>>
    /\ UNCHANGED gvars
    /\ UNCHANGED avars
    /\ UNCHANGED dvars

\* the route after the save: invalidatePattern, the broadcast, the response
PostMessageFinish(p) ==
    /\ p \in ChatPosts
    /\ chatSends[p] = "saved"
    /\ chatCache' = 0 - 1
    /\ emitted' = ToAll(<<"sanctuary", ChatSession>>, rooms,
                        "sanctuary_chat_message", ChatSession)
    /\ chatSends' = [chatSends EXCEPT ![p] = "idle"]
    /\ chatLog' = [chatLog EXCEPT !.finished = @ + 1]
    /\ UNCHANGED <<chatDb, chatReads>>
    /\ UNCHANGED <<keys, sessionState, roster, alerts, analytics, voice, now,
                   tasks, alertCalls, last>>
    /\ UNCHANGED <<open, closed, userId, rooms, currentSanctuary,
                   currentAudioRoom, currentSanctuaryHost, handReq>>
    /\ UNCHANGED avars
    /\ UNCHANGED dvars

\* the socket handler after the save: the broadcast and trackEvent
SendMessageFinish(k) ==
    /\ k \in Sockets
    /\ chatSends[k] = "saved"
    /\ emitted' = ToAll(<<"sanctuary", ChatSession>>, rooms,
                        "sanctuary_chat_message", ChatSession)
    /\ analytics' = [analytics EXCEPT ![ChatSession] =
          TrimmedEvents(Append(GetSessionAnalytics(ChatSession),
              [type |-> "message_sent", timestamp |-> now,
               seq |-> NextEventSeq(GetSessionAnalytics(ChatSession))]))]
    /\ keys' = keys \cup {<<"analytics", ChatSession>>}
    /\ chatSends' = [chatSends EXCEPT ![k] = "idle"]
    /\ chatLog' = [chatLog EXCEPT !.finished = @ + 1]
    /\ UNCHANGED <<chatDb, chatCache, chatReads>>
    /\ UNCHANGED <<sessionState, roster, alerts, voice, now, tasks, alertCalls,
                   last>>
    /\ UNCHANGED <<open, closed, userId, rooms, currentSanctuary,
                   currentAudioRoom, currentSanctuaryHost, handReq>>
    /\ UNCHANGED avars
    /\ UNCHANGED dvars

\* the empty store, no socket connected, no VoiceModulation document
InitStore ==
    /\ keys = {}
    /\ sessionState = [s \in Sessions |-> NoState]
    /\ roster = [s \in Sessions |-> <<>>]
    /\ alerts = [s \in Sessions |-> <<>>]
    /\ analytics = [s \in Sessions |-> <<>>]
    /\ voice = {}
    /\ now = 0
    /\ tasks = <<>>
    /\ alertCalls = [s \in Sessions |-> 0]
    /\ last = NoLast
    /\ open = <<>>
    /\ closed = {}
    /\ userId = [k \in Sockets |-> "none"]
    /\ rooms = [k \in Sockets |-> {}]
    /\ currentSanctuary = [k \in Sockets |-> "none"]
    /\ currentAudioRoom = [k \in Sockets |-> "none"]
    /\ currentSanctuaryHost = [k \in Sockets |-> "none"]
    /\ emitted = {}
    /\ handReq = [s \in Sessions |-> [u \in UserIds |-> "none"]]
    /\ vmod = [d \in Sessions \X AudioUsers |-> NoModulation]
    /\ reply = NoReply
    /\ liveSessions = {}
    /\ reqs = [r \in Requests |-> NoReq]
    /\ chatDb = 0
    /\ chatCache = 0 - 1
    /\ chatReads = [g \in ChatReaders |-> [pc |-> "idle", snap |-> 0]]
    /\ chatSends = [x \in ChatSenders |-> "idle"]
    /\ chatLog = NoChatLog

\* the voice backend is configured; the scheduled sanctuary is as the create
\* route leaves it with the defaults of the schema
Init ==
    /\ InitStore
    /\ apiKeySet = TRUE
    /\ sched = ScheduledDoc("scheduled", 1, 1, FALSE, TRUE)

\* the voice backend is configured or not: ElevenLabsService.isEnabled is
\* fixed when the service is constructed
InitAudio ==
    /\ InitStore
    /\ apiKeySet \in BOOLEAN
    /\ sched = ScheduledDoc("scheduled", 1, 1, FALSE, TRUE)

\* a scheduled sanctuary that waits for its time or was cancelled, with any
\* time and settings
InitSched ==
    /\ InitStore
    /\ apiKeySet = TRUE
    /\ sched \in {ScheduledDoc(st, at, e, al, ak) :
                     st \in {"scheduled", "cancelled"}, at \in ScheduleTimes,
                     e \in EarlyMinutes, al \in BOOLEAN, ak \in BOOLEAN}

\* the roster operations of one session under concurrent callers
RosterSessions == {"s1"}

RosterNext ==
    \/ \E s \in RosterSessions, st \in StateInputs : SetSessionState(s, st)
    \/ \E s \in RosterSessions, p \in ParticipantInputs : AddParticipant(s, p)
    \/ \E s \in RosterSessions, pid \in ParticipantIds : RemoveParticipant(s, pid)
    \/ \E s \in RosterSessions, pid \in ParticipantIds, st \in Statuses,
          r \in BOOLEAN : UpdateParticipantStatus(s, pid, st, r)
    \/ RunMetrics
    \/ \E s \in RosterSessions, pre \in {"session", "participants"} :
          ExpireKey(pre, s)

SpecRoster == Init /\ [][RosterNext]_vars

\* the alert log of one session, filled past its cap
AlertNext ==
    \/ \E s \in RosterSessions : SetEmergencyAlert(s, "crisis", MaxAlertAppends)
    \/ \E s \in RosterSessions : CleanupSession(s)
    \/ \E s \in RosterSessions : ExpireKey("emergency", s)
    \/ Tick

SpecAlerts == Init /\ [][AlertNext]_vars

\* every repository operation on one session, with small contents, beside
\* a second session that holds voice state and is read and cleaned up too
RepoNext ==
    \/ \E s \in RosterSessions : SetSessionState(s, NoState)
    \/ \E s \in RosterSessions, p \in ParticipantInputs :
          p.id = "p1" /\ AddParticipant(s, p)
    \/ \E s \in RosterSessions :
          UpdateParticipantStatus(s, "p1", "disconnected", TRUE)
    \/ RunMetrics
    \/ \E s \in RosterSessions : SetEmergencyAlert(s, "harassment", MaxAlerts)
    \/ \E s \in RosterSessions : ResolveEmergencyAlert(s, 0)
    \/ \E s \in RosterSessions : TrackEvent(s, "message_sent", MaxEvents)
    \/ \E s \in Sessions : SetVoiceModulation(s, "p1")
    \/ \E s \in RosterSessions : RemoveVoiceModulation(s, "p1")
    \/ \E s \in Sessions : GetSessionOverview(s)
    \/ \E s \in Sessions : CleanupSession(s)
    \/ \E s \in RosterSessions, pre \in {"emergency", "analytics"} :
          ExpireKey(pre, s)

SpecRepo == Init /\ [][RepoNext]_vars

\* voice entries beside the roster, the state and the alerts of one session;
\* only p1 is ever in the roster, voice entries are kept for p1 and p2
VoiceNext ==
    \/ \E s \in RosterSessions : SetSessionState(s, NoState)
    \/ \E s \in RosterSessions, p \in ParticipantInputs :
          p.id = "p1" /\ AddParticipant(s, p)
    \/ \E s \in RosterSessions : RemoveParticipant(s, "p1")
    \/ \E s \in RosterSessions :
          UpdateParticipantStatus(s, "p1", "disconnected", TRUE)
    \/ RunMetrics
    \/ \E s \in RosterSessions : SetEmergencyAlert(s, "crisis", MaxAlerts)
    \/ \E s \in RosterSessions, pid \in ParticipantIds :
          SetVoiceModulation(s, pid)
    \/ \E s \in RosterSessions, pid \in ParticipantIds :
          RemoveVoiceModulation(s, pid)

SpecVoice == Init /\ [][VoiceNext]_vars

\* the start and join routes of one scheduled sanctuary: two start requests
\* that may overlap, join requests one after the other, and the clock
StartSlots == {"r1", "r2"}
JoinSlots == {"r3"}

SchedNext ==
    \/ \E r \in StartSlots, u \in SchedUsers, i \in SchedIdentifiers :
          StartFind(r, u, i)
    \/ \E r \in StartSlots : StartSaveLive(r)
    \/ \E r \in StartSlots : StartGoLive(r)
    \/ \E r \in JoinSlots, u \in SchedUsers, ack \in BOOLEAN,
          i \in SchedIdentifiers : JoinFind(r, u, ack, i)
    \/ \E r \in JoinSlots : JoinSave(r)
    \/ Tick

SpecSched == InitSched /\ [][SchedNext]_vars

\* the chat of one session: two readers, sends through the route and
\* through a socket
ChatSockets == {"k2"}

ChatNext ==
    \/ \E k \in ChatSockets : Connect(k)
    \/ \E g \in ChatReaders : GetMessages(g)
    \/ \E g \in ChatReaders : GetMessagesFind(g)
    \/ \E g \in ChatReaders : GetMessagesStore(g)
    \/ \E p \in ChatPosts, c \in BOOLEAN, m \in BOOLEAN : PostMessage(p, c, m)
    \/ \E k \in ChatSockets : SendMessage(k)
    \/ \E x \in ChatSenders : MessageSaved(x)
    \/ \E p \in ChatPosts : PostMessageFinish(p)
    \/ \E k \in ChatSockets : SendMessageFinish(k)

SpecChat == Init /\ [][ChatNext]_vars

\* sockets of an anonymous visitor and of user u1 ask for the admin panel
AdminNext ==
    \/ \E k \in Sockets : Connect(k)
    \/ \E k \in Sockets, d \in AdminPayloads : JoinAdminPanel(k, d)
    \/ \E k \in Sockets : Disconnect(k)

SpecAdmin == Init /\ [][AdminNext]_vars

\* the roster and the alert log of one session: only p1 is ever added, calls
\* name p1 and p2, alerts are appended at the same and at different clock
\* values and resolved by ids that were and were not handed out
LedgerAlertIds == 0..(MaxClock + 1)

LedgerNext ==
    \/ \E s \in RosterSessions, p \in ParticipantInputs :
          p.id = "p1" /\ AddParticipant(s, p)
    \/ \E s \in RosterSessions, pid \in ParticipantIds : RemoveParticipant(s, pid)
    \/ \E s \in RosterSessions, pid \in ParticipantIds :
          UpdateParticipantStatus(s, pid, "disconnected", TRUE)
    \/ RunMetrics
    \/ \E s \in RosterSessions : SetEmergencyAlert(s, "crisis", MaxAlerts + 1)
    \/ \E s \in RosterSessions, a \in LedgerAlertIds : ResolveEmergencyAlert(s, a)
    \/ \E s \in Sessions \ RosterSessions : GetSessionOverview(s)
    \/ Tick

SpecLedger == Init /\ [][LedgerNext]_vars

\* the analytics buffer of one session, filled past its cap
EventNext ==
    \/ \E s \in RosterSessions : TrackEvent(s, "message_sent", MaxEventAppends)
    \/ \E s \in RosterSessions : CleanupSession(s)
    \/ \E s \in RosterSessions : ExpireKey("analytics", s)

SpecEvents == Init /\ [][EventNext]_vars

PresenceSockets == {"k1", "k2"}
PresenceJoins == {<<"k1", "s1">>, <<"k1", "s2">>, <<"k2", "s1">>}

\* presence: sockets connect, join sessions, raise and lower hands and
\* disconnect
PresenceNext ==
    \/ \E k \in PresenceSockets : Connect(k)
    \/ \E j \in PresenceJoins : JoinSanctuary(j[1], j[2], "participant")
    \/ RunMetrics
    \/ JoinEmit
    \/ \E k \in PresenceSockets, s \in AudioSessions, r \in BOOLEAN :
          RaiseHand(k, s, r)
    \/ HandEmit
    \/ \E k \in PresenceSockets : Disconnect(k)

SpecPresence == Init /\ [][PresenceNext]_vars

\* joins with and without the participant field
PayloadNext ==
    \/ \E k \in PresenceSockets : Connect(k)
    \/ \E j \in PresenceJoins : JoinSanctuary(j[1], j[2], "participant")
    \/ \E j \in PresenceJoins : JoinSanctuaryNoParticipant(j[1], j[2])
    \/ RunMetrics
    \/ JoinEmit
    \/ \E k \in PresenceSockets : Disconnect(k)

SpecPayload == Init /\ [][PayloadNext]_vars

\* the roles a join payload can ask for through isHost and isModerator
JoinRoles == {"participant", "moderator", "host"}
RoleSessions == {"s1"}

\* joins with every role beside the host channel of the session
RoleNext ==
    \/ \E k \in PresenceSockets : Connect(k)
    \/ \E k \in PresenceSockets, s \in RoleSessions, r \in JoinRoles :
          JoinSanctuary(k, s, r)
    \/ RunMetrics
    \/ JoinEmit
    \/ \E k \in HostCandidates, s \in RoleSessions, tok \in HostTokens :
          JoinSanctuaryHost(k, s, tok)
    \/ \E k \in PresenceSockets : Disconnect(k)

SpecRole == Init /\ [][RoleNext]_vars

\* moderation of one session: the two connections of user u1 join it, an
\* anonymous socket may prove host authority with the host token, and
\* sockets with and without that proof mute and kick
ModJoiners == {"k2", "k3"}
ModAudio == {"k1", "k2"}
ModIssuers == {"k1", "k3"}
ModTargets == {"u1", AnonId("k2")}

Next ==
    \/ \E k \in Sockets : Connect(k)
    \/ \E k \in ModJoiners, s \in AudioSessions :
          JoinSanctuary(k, s, "participant")
    \/ RunMetrics
    \/ JoinEmit
    \/ \E k \in ModAudio, s \in AudioSessions : JoinAudioRoom(k, s)
    \/ \E k \in HostCandidates, s \in AudioSessions, tok \in HostTokens :
          JoinSanctuaryHost(k, s, tok)
    \/ \E k \in ModIssuers, s \in AudioSessions, pid \in ModTargets :
          MuteParticipant(k, s, pid)
    \/ \E k \in ModIssuers, s \in AudioSessions, pid \in ModTargets :
          KickParticipant(k, s, pid)
    \/ \E k \in Sockets : Disconnect(k)

Spec == Init /\ [][Next]_vars

\* connection establishment: sockets present any token and disconnect
AuthNext ==
    \/ \E k \in Sockets, tok \in Tokens : Handshake(k, tok)
    \/ \E k \in Sockets : Disconnect(k)

SpecAuth == Init /\ [][AuthNext]_vars

\* host channels: sockets connect, ask for the host channel of a session
\* with or without a token while the clock moves, and disconnect
HostSockets == {"k1", "k2"}

HostNext ==
    \/ \E k \in HostSockets : Connect(k)
    \/ \E k \in HostSockets, s \in Sessions, tok \in GrantTokens :
          JoinSanctuaryHost(k, s, tok)
    \/ Tick
    \/ \E k \in HostSockets : Disconnect(k)

SpecHost == Init /\ [][HostNext]_vars

\* directed operations: the sockets connect, one of them joins the session,
\* two may sit in its audio room, the anonymous one may prove host
\* authority, and sockets with and without that proof mute, kick, promote
\* and ask for a voice chat, also at an identity that has no connection
DirectedJoiners == {"k2"}

DirectedNext ==
    \/ \E k \in Sockets : Connect(k)
    \/ \E k \in DirectedJoiners, s \in AudioSessions :
          JoinSanctuary(k, s, "participant")
    \/ RunMetrics
    \/ JoinEmit
    \/ \E k \in ModAudio, s \in AudioSessions : JoinAudioRoom(k, s)
    \/ \E k \in HostCandidates, s \in AudioSessions :
          JoinSanctuaryHost(k, s, "HT1")
    \/ \E k \in ModIssuers, s \in AudioSessions, pid \in ModTargets :
          MuteParticipant(k, s, pid)
    \/ \E k \in ModIssuers, s \in AudioSessions, pid \in ModTargets :
          KickParticipant(k, s, pid)
    \/ \E k \in ModIssuers, s \in AudioSessions, pid \in ModTargets :
          PromoteToSpeaker(k, s, pid)
    \/ \E k \in ModIssuers, s \in AudioSessions, pid \in ModTargets :
          RequestVoiceChat(k, s, pid)
    \/ \E k \in Sockets : Disconnect(k)

SpecDirected == Init /\ [][DirectedNext]_vars

\* emergency alerts: one socket joins the session, another holds its host
\* channel, and either raises an alert
AlertCastNext ==
    \/ \E k \in PresenceSockets : Connect(k)
    \/ \E k \in DirectedJoiners, s \in AudioSessions :
          JoinSanctuary(k, s, "participant")
    \/ RunMetrics
    \/ JoinEmit
    \/ \E k \in HostCandidates, s \in AudioSessions :
          JoinSanctuaryHost(k, s, "HT1")
    \/ \E k \in PresenceSockets, s \in AudioSessions :
          EmergencyAlert(k, s, "crisis")
    \/ AlertEmit
    \/ \E k \in PresenceSockets : Disconnect(k)

SpecAlertCast == Init /\ [][AlertCastNext]_vars

\* the voice routes: participants set and disable their voice modulation
\* and send audio while the backend answers or fails
AudioNext ==
    \/ \E s \in Sessions, u \in AudioUsers, v \in VoiceInputs :
          SetModulationRoute(s, u, v)
    \/ \E s \in Sessions, u \in AudioUsers : DisableModulationRoute(s, u)
    \/ \E s \in Sessions, u \in AudioUsers, a \in AudioInputs,
          o \in BackendOutcomes : ProcessAudio(s, u, a, o)

SpecAudio == InitAudio /\ [][AudioNext]_vars

\* muting: a participant joins and may unmute and mute itself in the
\* roster; the anonymous socket may prove host authority and force-mute
MuteNext ==
    \/ \E k \in Sockets : Connect(k)
    \/ \E k \in DirectedJoiners, s \in AudioSessions :
          JoinSanctuary(k, s, "participant")
    \/ RunMetrics
    \/ JoinEmit
    \/ \E k \in ModAudio, s \in AudioSessions : JoinAudioRoom(k, s)
    \/ \E k \in HostCandidates, s \in AudioSessions :
          JoinSanctuaryHost(k, s, "HT1")
    \/ \E s \in AudioSessions, m \in BOOLEAN :
          UpdateParticipantMuted(s, "u1", m)
    \/ \E k \in HostCandidates, s \in AudioSessions :
          MuteParticipant(k, s, "u1")
    \/ \E k \in Sockets : Disconnect(k)

SpecMute == Init /\ [][MuteNext]_vars

(* ------------------------------ claims --------------------------------- *)

\* the participantCount recorded in the session metrics, as a set: empty
\* when no session state or no metrics are stored
RecordedCount(s) ==
    IF Has("session", s) /\ sessionState[s].hasMetrics
    THEN {sessionState[s].participantCount} ELSE {}

\* C1: once an addParticipant or removeParticipant call on session S has
\* completed (its metrics continuation has run), the participantCount
\* recorded in S's metrics equals the number of roster entries of S, also
\* when no session state had been stored for S before.
C1_CountEqualsRosterSize ==
    (last.op \in {"add", "remove"} /\ tasks = <<>>)
        => RecordedCount(last.s) = {Len(GetParticipants(last.s))}

\* C2: the roster of every session holds at most one entry per participant
\* id.
C2_OneEntryPerId ==
    \A s \in Sessions : Cardinality(Ids(roster[s])) = Len(roster[s])

\* a rejoin: addParticipant was called with an id that was in the roster
C2_RejoinReached ==
    /\ last.op = "add"
    /\ last.id \in Ids(last.pre)
    /\ Len(roster[last.s]) = 2

\* C3 as stated: addParticipant followed immediately by removeParticipant
\* for the same id leaves the roster equal to the roster before the add,
\* for every roster and id.
C3_RoundTripAnyId ==
    (last.op = "remove" /\ last.rt) => GetParticipants(last.s) = last.pre

\* C3 amended: addParticipant followed immediately by removeParticipant for
\* the same id leaves the roster equal to the roster before the add when
\* the id was not in it, and equal to that roster without the id's entry
\* when it was.
C3_RoundTripFreshId ==
    (last.op = "remove" /\ last.rt) =>
        GetParticipants(last.s) =
            IF last.id \in Ids(last.pre)
            THEN FilterOutId(last.pre, last.id) ELSE last.pre

\* a round trip with a fresh id on a roster that already has an entry
C3_RoundTripReached ==
    /\ last.op = "remove"
    /\ last.rt
    /\ last.pre # <<>>
    /\ last.id \notin Ids(last.pre)

\* C4: the alert log of a session never holds more than 50 alerts, and it
\* holds exactly the most recently appended ones in append order: the
\* 51st append drops the oldest.
C4_AlertLogKeepsNewest ==
    \A s \in Sessions :
        /\ Len(alerts[s]) = Min(alertCalls[s], AlertCap)
        /\ \A i \in 1..Len(alerts[s]) :
              alerts[s][i].seq = alertCalls[s] - Len(alerts[s]) + i

\* the 51st alert has been appended and the first one is gone
C4_FiftyFirstAppended ==
    /\ alertCalls["s1"] = AlertCap + 1
    /\ Len(alerts["s1"]) = AlertCap
    /\ alerts["s1"][1].seq = 2

HasHostProof(k, s) == <<"sanctuary_host", s>> \in rooms[k]

\* the connection's roster entry in the session has a privileged role
HasModeratorRole(k, s) ==
    \E i \in 1..Len(GetParticipants(s)) :
        /\ GetParticipants(s)[i].id = userId[k]
        /\ GetParticipants(s)[i].role \in {"host", "moderator"}

\* C5: a mute_participant issued by a connection that is neither host nor
\* moderator of the session is rejected: no force_muted notice and no
\* participant_muted broadcast is sent, and the roster is unchanged.
C5_ForceMuteNeedsAuthority ==
    (last.op = "mute" /\ ~HasHostProof(last.k, last.s)
                      /\ ~HasModeratorRole(last.k, last.s)) =>
        /\ \A m \in emitted : m.ev \notin {"force_muted", "participant_muted"}
        /\ GetParticipants(last.s) = last.pre

\* C6: after a kick issued by a host against a target that is in the
\* roster, the target is no longer in the roster, and the target's
\* connection is in no channel of the session any more, so that no later
\* broadcast to the session reaches it.
C6_KickRemovesTarget ==
    (last.op = "kick" /\ HasHostProof(last.k, last.s)
                      /\ last.id \in Ids(last.pre)) =>
        /\ last.id \notin Ids(GetParticipants(last.s))
        /\ last.target # "none" =>
              \A r \in rooms[last.target] : r[2] # last.s

\* C7: when an anonymous connection that holds host authority by a host
\* token kicks a participant who is in the roster with role participant,
\* the number of participants of the session goes down by exactly 1, and
\* exactly one kicked_from_room notice is delivered when the target has a
\* local connection.
C7_HostTokenKick ==
    (last.op = "kick" /\ IsAnonymous(last.k) /\ HasHostProof(last.k, last.s)
        /\ \E i \in 1..Len(last.pre) :
              last.pre[i].id = last.id /\ last.pre[i].role = "participant") =>
        /\ Len(GetParticipants(last.s)) = Len(last.pre) - 1
        /\ last.target # "none" =>
              Cardinality({m \in emitted : m.ev = "kicked_from_room"}) = 1

\* C8: every roster entry shows the last hand-raise request made for it,
\* whatever other entries were updated before, between or after: an update
\* of one participant never overwrites the update of another.
C8_ConcurrentHandsBothApplied ==
    \A s \in Sessions : \A i \in 1..Len(roster[s]) :
        handReq[s][roster[s][i].id] # "none" =>
            roster[s][i].handRaised = (handReq[s][roster[s][i].id] = "up")

\* two connections have raised the hands of two participants of one session
\* and neither handler has finished
C8_TwoHandsInFlightReached ==
    /\ Len(tasks) = 2
    /\ tasks[1].kind = "hand_emit" /\ tasks[2].kind = "hand_emit"
    /\ tasks[1].k # tasks[2].k
    /\ tasks[1].s = tasks[2].s
    /\ Len(roster[tasks[1].s]) = 2
    /\ \A i \in 1..2 : handReq[tasks[1].s][roster[tasks[1].s][i].id] = "up"

\* C10: no roster keeps the entry of a connection that has disconnected.
C10_NoStalePresence ==
    \A s \in Sessions : \A i \in 1..Len(roster[s]) :
        roster[s][i].socketId \notin closed

\* C11: when a connection disconnects, the remaining subscribers of every
\* sanctuary channel it had joined, not only of the one joined last, are
\* sent a participant_left notice.
C11_LeaveNoticeToEveryJoinedSession ==
    [][\A k \in Sockets : (k \in Connected /\ k \in closed' /\ k \notin closed) =>
          \A s \in Sessions : <<"sanctuary", s>> \in rooms[k] =>
              \A o \in InRoom(<<"sanctuary", s>>, rooms) \ {k} :
                  [to |-> o, ev |-> "participant_left", s |-> s] \in emitted']_vars

\* C12: a handshake that carries no credential is never refused and gives
\* the connection the anonymous identity made from its own connection id;
\* a handshake whose credential fails verification, or verifies as a user
\* that is not known, is refused and the socket is not connected.
C12_AnonymousAcceptedBadCredentialRefused ==
    last.op = "handshake" =>
        /\ last.id \in {"none", "empty"} =>
              /\ last.rt
              /\ last.k \in Connected
              /\ userId[last.k] = AnonId(last.k)
        /\ (last.id \in {"forged", "nouser"} \/ last.id \notin KnownUsers \cup {"none", "empty"}) =>
              /\ ~last.rt
              /\ last.k \notin Connected

\* a token of an unknown user has been refused while an anonymous socket
\* is connected
C12_RefusedBesideAnonymousReached ==
    /\ last.op = "handshake" /\ last.id = "u9" /\ ~last.rt
    /\ \E k \in Connected : userId[k] = AnonId(k)

\* an active grant record for the session and token that has not expired
LiveGrant(s, token) ==
    \E g \in HostSessions :
        /\ g.sanctuaryId = s /\ g.hostToken = token
        /\ g.isActive /\ g.expiresAt > now

\* the token is the host token of the session, by the session document or
\* by a live grant
PresentedValidToken(s, token) ==
    token # "none" /\ (SanctuaryDocs[s].hostToken = token \/ LiveGrant(s, token))

\* the connection is authenticated as the owner of the session
IsOwner(k, s) == ~IsAnonymous(k) /\ userId[k] = SanctuaryDocs[s].hostId

C14_ExpiredGrantRefused ==
    [][(/\ last'.op = "join_host" /\ now' = now
        /\ IsAnonymous(last'.k)
        /\ \E g \in HostSessions :
              g.sanctuaryId = last'.s /\ g.hostToken = last'.id
        /\ ~LiveGrant(last'.s, last'.id)) =>
           /\ ~last'.rt
           /\ emitted' = {[to |-> last'.k, ev |-> "sanctuary_host_auth_failed",
                           s |-> last'.s]}]_vars

\* the notices and broadcasts of the directed operations
DirectedEvents ==
    {"force_muted", "participant_muted", "kicked_from_room",
     "participant_kicked", "promoted_to_speaker", "speaker_promoted",
     "voice_chat_request"}

\* C15: a kick or a promote-to-speaker issued by a connection that has
\* neither host proof nor a moderator role in the session is rejected: no
\* notice goes to the target, no subscription is revoked, no broadcast goes
\* to the room, and the issuer is told of the refusal.
C15_UnauthorizedKickPromoteRejected ==
    [][(/\ last'.op \in {"kick", "promote"} /\ now' = now /\ tasks' = tasks
        /\ ~HasHostProof(last'.k, last'.s)
        /\ ~HasModeratorRole(last'.k, last'.s)) =>
           /\ \A m \in emitted' : m.ev \notin DirectedEvents
           /\ \E m \in emitted' : m.to = last'.k
           /\ rooms' = rooms]_vars

\* C17: when no connected socket has the target identity of a mute, kick,
\* promote or voice-chat request, the event is dropped silently: nothing is
\* delivered or broadcast, not to the issuer either, and the roster, the
\* rest of the store and the room subscriptions stay as they were.
C17_UnresolvableTargetDropped ==
    [][(/\ last'.op \in {"mute", "kick", "promote", "voice_request"}
        /\ now' = now /\ tasks' = tasks
        /\ \A k \in Connected : userId[k] # last'.id) =>
           /\ emitted' = {}
           /\ UNCHANGED <<rooms, roster, keys, sessionState, alerts, analytics,
                          voice, open, closed>>]_vars

\* a kick at an identity without a connection has been dropped while the
\* audio room of the session had a member to notify
C17_KickDroppedReached ==
    /\ last.op = "kick" /\ last.target = "none"
    /\ emitted = {}
    /\ \A k \in Connected : userId[k] # last.id
    /\ \E k \in Connected \ {last.k} : <<"audio_room", last.s>> \in rooms[k]

\* C16: every write of a stored session state, by setSessionState or by a
\* metric update, leaves a version greater than the version stored before.
C16_VersionStrictlyIncreases ==
    [][\A s \in Sessions :
          (/\ Has("session", s)
           /\ <<"session", s>> \in keys'
           /\ sessionState'[s] # sessionState[s]) =>
              sessionState'[s].version > sessionState[s].version]_vars

\* C18: the broadcast of an emergency alert reaches every connection that
\* is subscribed to the session, by its sanctuary channel or by its host
\* channel.
C18_AlertReachesHostChannel ==
    last.op = "alert_emit" =>
        \A k \in Connected :
            (\/ <<"sanctuary", last.s>> \in rooms[k]
             \/ <<"sanctuary_host", last.s>> \in rooms[k]) =>
                [to |-> k, ev |-> "emergency_alert", s |-> last.s] \in emitted

\* nothing of the session is in the store
StoreEmptyOf(s) ==
    /\ \A pre \in {"session", "participants", "emergency", "analytics"} :
          ~Has(pre, s)
    /\ VoiceKeysOf(s) = {}
    /\ sessionState[s] = NoState /\ roster[s] = <<>>
    /\ alerts[s] = <<>> /\ analytics[s] = <<>>

\* C19: cleanupSession(S) reports success and leaves no session, roster,
\* alert or analytics key and no voice key of S in the store; called on a
\* store that holds nothing of S it changes nothing in the store.
C19_CleanupRemovesAllAndIsIdempotent ==
    [][\A s \in Sessions :
          (/\ last'.op = "cleanup" /\ last'.s = s
           /\ tasks' = tasks /\ now' = now) =>
              /\ last'.rt
              /\ StoreEmptyOf(s)'
              /\ StoreEmptyOf(s) =>
                    UNCHANGED <<keys, sessionState, roster, alerts, analytics,
                                voice>>]_vars

\* a session that had a roster has been cleaned up while the other session
\* keeps its voice key
C19_CleanupBesideOtherSessionReached ==
    /\ last.op = "cleanup" /\ last.rt
    /\ last.pre # <<>>
    /\ StoreEmptyOf(last.s)
    /\ \E v \in voice : v[1] # last.s

\* C20: a process-audio request of a participant with active voice
\* modulation that carries audio data, made while the voice backend is
\* disabled or fails, is answered with success, the audio as it was sent,
\* and the fallback mark.
C20_BackendFailureFallsBack ==
    (/\ reply.op = "process_audio"
     /\ reply.found
     /\ reply.audio \notin {"none", ""}
     /\ (~apiKeySet \/ reply.outcome = "error")) =>
        /\ reply.status = 200
        /\ reply.processedAudio = reply.audio
        /\ reply.fallback

\* audio was sent with active modulation while the configured backend
\* failed
C20_FallbackOnBackendErrorReached ==
    /\ reply.op = "process_audio" /\ reply.found
    /\ reply.audio = "a1"
    /\ apiKeySet /\ reply.outcome = "error"
    /\ reply.fallback

\* C21: a session state write with a patch that does not mention the
\* metrics keeps the metrics of the stored state.
C21_PatchKeepsUnmentionedFields ==
    [][\A s \in Sessions :
          (/\ last'.op = "setState" /\ last'.s = s
           /\ tasks' = tasks /\ now' = now
           /\ Has("session", s) /\ sessionState[s].hasMetrics) =>
              /\ sessionState'[s].hasMetrics
              /\ sessionState'[s].participantCount
                    = sessionState[s].participantCount
              /\ sessionState'[s].activeParticipants
                    = sessionState[s].activeParticipants]_vars

\* C22: when join_sanctuary notifies, the roster already holds the
\* sender's entry; participant_joined goes to every other subscriber of the
\* sanctuary channel and not to the sender; and the sender, if still
\* connected, gets participants_list with the roster addParticipant
\* returned, which contains the sender's own entry.
C22_JoinNotifiesAfterRosterWrite ==
    last.op = "join_emit" =>
        /\ userId[last.k] \in Ids(GetParticipants(last.s))
        /\ userId[last.k] \in Ids(last.pre)
        /\ \A o \in InRoom(<<"sanctuary", last.s>>, rooms) \ {last.k} :
              [to |-> o, ev |-> "participant_joined", s |-> last.s] \in emitted
        /\ [to |-> last.k, ev |-> "participant_joined", s |-> last.s]
              \notin emitted
        /\ last.k \in Connected =>
              [to |-> last.k, ev |-> "participants_list", s |-> last.s]
                  \in emitted

\* a second socket has joined a session and the first one was told
C22_OtherSubscriberToldReached ==
    /\ last.op = "join_emit"
    /\ Len(last.pre) = 2
    /\ last.k \in Connected
    /\ \E m \in emitted : m.ev = "participant_joined" /\ m.to # last.k

\* C23: after a force-mute issued by a host against a participant in the
\* roster, that participant's entry is muted, and when the target has a
\* connection it got force_muted and the audio room got participant_muted.
C23_ForceMuteSetsMutedFlag ==
    (last.op = "mute" /\ HasHostProof(last.k, last.s)
                      /\ last.id \in Ids(last.pre)) =>
        /\ \A i \in 1..Len(GetParticipants(last.s)) :
              GetParticipants(last.s)[i].id = last.id =>
                  GetParticipants(last.s)[i].isMuted
        /\ last.target # "none" =>
              /\ [to |-> last.target, ev |-> "force_muted", s |-> last.s]
                    \in emitted
              /\ \A o \in InRoom(<<"audio_room", last.s>>, rooms) :
                    [to |-> o, ev |-> "participant_muted", s |-> last.s]
                        \in emitted

\* C24: a call that names something absent changes nothing: removeParticipant
\* and updateParticipantStatus with an id that is not in the roster leave the
\* roster as it was, resolveEmergencyAlert with an id no alert carries leaves
\* the alert log as it was, and the overview of a session with no stored
\* roster, alerts or events reports empty lists.
C24_AbsentTargetsAreNoOps ==
    [][\A s \in Sessions :
          /\ (/\ last'.op = "remove" /\ last'.s = s
               /\ Len(tasks') = Len(tasks) + 1
               /\ last'.id \notin Ids(GetParticipants(s)))
                 => GetParticipants(s)' = GetParticipants(s)
          /\ (/\ last'.op = "status" /\ last'.s = s
               /\ tasks' = tasks /\ now' = now
               /\ last'.id \notin Ids(GetParticipants(s)))
                 => GetParticipants(s)' = GetParticipants(s)
          /\ (/\ last'.op = "resolve" /\ last'.s = s
               /\ tasks' = tasks /\ now' = now
               /\ \A i \in 1..Len(GetEmergencyAlerts(s)) :
                     GetEmergencyAlerts(s)[i].id # last'.alert)
                 => GetEmergencyAlerts(s)' = GetEmergencyAlerts(s)
          /\ (/\ last'.op = "overview" /\ last'.s = s
               /\ tasks' = tasks /\ now' = now
               /\ ~Has("participants", s) /\ ~Has("emergency", s)
               /\ ~Has("analytics", s))
                 => /\ last'.overview.participants = <<>>
                    /\ last'.overview.alerts = <<>>
                    /\ last'.overview.analytics = <<>>
    ]_vars

C24_UnknownAlertResolvedReached ==
    /\ last.op = "resolve"
    /\ \E i \in 1..Len(GetEmergencyAlerts(last.s)) :
          GetEmergencyAlerts(last.s)[i].status = "active"
    /\ \A i \in 1..Len(GetEmergencyAlerts(last.s)) :
          GetEmergencyAlerts(last.s)[i].id # last.alert
    /\ Len(GetParticipants(last.s)) > 0

\* C25: updateParticipantStatus rewrites only the roster entry whose id
\* matches: that entry gets the new status, the metadata and a fresh lastSeen
\* and keeps its other fields; every other entry, the number of entries and
\* their order stay as they were.
C25_StatusUpdateTouchesOnlyTheMatch ==
    [][\A s \in Sessions :
          (last'.op = "status" /\ last'.s = s /\ tasks' = tasks /\ now' = now)
          => /\ Len(GetParticipants(s)') = Len(GetParticipants(s))
             /\ \A i \in 1..Len(GetParticipants(s)) :
                   IF GetParticipants(s)[i].id = last'.id
                   THEN \E st \in Statuses, r \in BOOLEAN :
                          GetParticipants(s)'[i] =
                             [GetParticipants(s)[i] EXCEPT
                                !.status = st, !.handRaised = r,
                                !.lastSeen = now]
                   ELSE GetParticipants(s)'[i] = GetParticipants(s)[i]
    ]_vars

C25_FirstOfTwoUpdatedReached ==
    /\ last.op = "status"
    /\ Len(GetParticipants(last.s)) = 2
    /\ GetParticipants(last.s)[1].id = last.id
    /\ GetParticipants(last.s)[1].status = "disconnected"
    /\ GetParticipants(last.s)[1].handRaised
    /\ GetParticipants(last.s)[2].status = "connected"
    /\ ~GetParticipants(last.s)[2].handRaised

\* C26: resolveEmergencyAlert called with the id that setEmergencyAlert
\* returned for an alert makes that alert resolved and changes no other
\* alert of the session, also when alerts were appended at the same clock
\* value.
C26_ResolveFlipsOnlyTheNamedAlert ==
    [][\A s \in Sessions :
          (last'.op = "resolve" /\ last'.s = s /\ tasks' = tasks /\ now' = now)
          => /\ Len(GetEmergencyAlerts(s)') = Len(GetEmergencyAlerts(s))
             /\ \A i \in 1..Len(GetEmergencyAlerts(s)) :
                   GetEmergencyAlerts(s)[i].id = last'.alert =>
                       GetEmergencyAlerts(s)'[i].status = "resolved"
             /\ Cardinality({i \in 1..Len(GetEmergencyAlerts(s)) :
                     GetEmergencyAlerts(s)'[i] # GetEmergencyAlerts(s)[i]}) <= 1
    ]_vars

\* C27: while a session is neither cleaned up nor expired, an alert that is
\* in its log stays in the log, and the only change made to it is its status
\* going from active to resolved.
C27_AlertKeptAndOnlyResolved ==
    [][\A s \in Sessions :
          ~(last'.op \in {"cleanup", "expire"} /\ last'.s = s)
          => \A i \in 1..Len(GetEmergencyAlerts(s)) :
                \E j \in 1..Len(GetEmergencyAlerts(s)') :
                   \/ GetEmergencyAlerts(s)'[j] = GetEmergencyAlerts(s)[i]
                   \/ /\ GetEmergencyAlerts(s)[i].status = "active"
                      /\ GetEmergencyAlerts(s)'[j] =
                            [GetEmergencyAlerts(s)[i] EXCEPT
                                !.status = "resolved"]
    ]_vars

\* C28: every trackEvent leaves at most 1000 events in the buffer of the
\* session: the event just appended is the last one, before it come the
\* events that were there in their order, without the oldest one when the
\* buffer was full, so the buffer always holds the most recently appended
\* events in append order.
C28_AnalyticsKeepsNewestThousand ==
    [][\A s \in Sessions :
          (last'.op = "event" /\ last'.s = s /\ tasks' = tasks /\ now' = now)
          => LET before == GetSessionAnalytics(s)
                 after == GetSessionAnalytics(s)'
                 kept == Len(after) - 1
             IN /\ Len(after) <= AnalyticsCap
                /\ Len(after) = IF Len(before) < AnalyticsCap
                                THEN Len(before) + 1 ELSE AnalyticsCap
                /\ after[Len(after)].seq = NextEventSeq(before)
                /\ \A i \in 1..kept :
                      /\ after[i] = before[Len(before) - kept + i]
                      /\ after[i + 1].seq = after[i].seq + 1
    ]_vars

C28_FullBufferTrimmedReached ==
    /\ last.op = "event"
    /\ Len(GetSessionAnalytics(last.s)) = AnalyticsCap
    /\ GetSessionAnalytics(last.s)[1].seq > 1

\* C29: getSessionOverview answers whatever keys of the session are stored:
\* a part whose key is absent is reported as empty (no state and version 0,
\* empty roster, alert and event lists), and the alert list of the answer
\* holds exactly the stored alerts whose status is active, in their order, so
\* a resolved alert is not in it.
C29_OverviewToleratesAbsenceListsActive ==
    [][\A s \in Sessions :
          (last'.op = "overview" /\ last'.s = s /\ tasks' = tasks /\ now' = now)
          => LET o == last'.overview
                 stored == GetEmergencyAlerts(s)
                 active == {i \in 1..Len(stored) : stored[i].status = "active"}
             IN /\ ~Has("session", s) => (~o.hasState /\ o.sessionVersion = 0)
                /\ ~Has("participants", s) =>
                      (o.participants = <<>> /\ o.totalParticipants = 0)
                /\ ~Has("emergency", s) =>
                      (o.alerts = <<>> /\ o.activeAlerts = 0)
                /\ ~Has("analytics", s) => o.analytics = <<>>
                /\ Len(o.alerts) = Cardinality(active)
                /\ o.activeAlerts = Cardinality(active)
                /\ \A i \in 1..Len(o.alerts) :
                      /\ o.alerts[i].status = "active"
                      /\ \E j \in active : stored[j] = o.alerts[i]
                /\ \A i, j \in active :
                      i < j => \E m, n \in 1..Len(o.alerts) :
                                 /\ m < n
                                 /\ o.alerts[m] = stored[i]
                                 /\ o.alerts[n] = stored[j]
    ]_vars

C29_ResolvedAlertLeftOutReached ==
    /\ last.op = "overview"
    /\ ~Has("session", last.s)
    /\ Has("emergency", last.s)
    /\ last.overview.alerts = <<>>
    /\ \E i \in 1..Len(GetEmergencyAlerts(last.s)) :
          GetEmergencyAlerts(last.s)[i].status = "resolved"

\* C30: right after the roster write of a join_sanctuary, first join or
\* rejoin, the roster holds exactly one entry of the joiner and that entry
\* has status connected, isMuted true and handRaised false, whatever the
\* joiner's previous entry said.
C30_JoinResetsEntry ==
    [][\A s \in Sessions, k \in Sockets :
          (/\ last'.op = "join" /\ last'.s = s /\ last'.k = k
           /\ Len(tasks') = Len(tasks) + 1)
          => LET parts == GetParticipants(s)'
                 mine == {i \in 1..Len(parts) : parts[i].id = userId[k]}
             IN /\ Cardinality(mine) = 1
                /\ \A i \in mine : /\ parts[i].status = "connected"
                                    /\ parts[i].isMuted
                                    /\ ~parts[i].handRaised
    ]_vars

C30_RejoinWithRaisedHandReached ==
    /\ last.op = "join"
    /\ \E i \in 1..Len(last.pre) :
          /\ last.pre[i].id = userId[last.k]
          /\ last.pre[i].handRaised
    /\ \E i \in 1..Len(GetParticipants(last.s)) :
          /\ GetParticipants(last.s)[i].id = userId[last.k]
          /\ ~GetParticipants(last.s)[i].handRaised

\* the join_sanctuary of socket k for session s has written the roster, its
\* metrics update has run, and its participant_joined has not been sent yet;
\* a join in this position was issued before every handler whose
\* continuation is ahead of it in the queue
JoinEmitPending(k, s, queue) ==
    \E i \in 1..Len(queue) :
       /\ queue[i].k = k /\ queue[i].s = s
       /\ queue[i].kind = "join_emit"

\* C31: a subscriber of a session is sent hand_raised about a participant
\* only after it was sent the participant_joined of that participant: when
\* the hand_raised of a connection goes out, no join of that connection to
\* the session is still waiting to be announced. The premise on the event
\* log keeps to sessions where at most one join was announced so far, which
\* is the join of the subscriber that is reached.
C31_JoinNoticeBeforeHandNotice ==
    [][(/\ tasks # <<>> /\ Head(tasks).kind = "hand_emit"
        /\ last'.op = "hand_emit" /\ tasks' = Tail(tasks)
        /\ Len(GetSessionAnalytics(Head(tasks).s)) <= 1
        /\ \E o \in Sockets :
              [to |-> o, ev |-> "hand_raised", s |-> Head(tasks).s] \in emitted')
       => ~JoinEmitPending(Head(tasks).k, Head(tasks).s, tasks')
    ]_vars

\* C32: a join_sanctuary whose payload has no participant field has no
\* effect: the roster, the rooms of the connection and its current-session
\* marker are what they were before the event.
C32_MalformedJoinHasNoEffect ==
    [][(last'.op = "join_bad" /\ tasks' = tasks /\ now' = now)
       => /\ roster' = roster
          /\ rooms' = rooms
          /\ currentSanctuary' = currentSanctuary
    ]_vars

\* C33: setVoiceModulation and removeVoiceModulation write and delete the
\* voice entry of the named participant and nothing else: the roster, the
\* session state, the alerts and the other voice entries stay as they were;
\* addParticipant, updateParticipantStatus and removeParticipant, with their
\* metrics update, leave every voice entry as it was.
C33_VoiceAndRosterIndependent ==
    [][/\ (last'.op \in {"voiceOn", "voiceOff"} /\ tasks' = tasks /\ now' = now)
          => /\ \A s \in Sessions :
                   /\ GetParticipants(s)' = GetParticipants(s)
                   /\ GetEmergencyAlerts(s)' = GetEmergencyAlerts(s)
             /\ sessionState' = sessionState /\ keys' = keys
             /\ (<<last'.s, last'.id>> \in voice') = (last'.op = "voiceOn")
             /\ voice' \ {<<last'.s, last'.id>>} = voice \ {<<last'.s, last'.id>>}
       /\ (last'.op \in {"add", "status", "remove"}) => voice' = voice
    ]_vars

C33_VoiceKeptForRemovedParticipantReached ==
    /\ last.op = "remove" /\ last.id = "p1"
    /\ "p1" \notin Ids(GetParticipants(last.s))
    /\ <<last.s, "p1">> \in voice
    /\ <<last.s, "p2">> \in voice
    /\ Has("session", last.s)

\* C34: a join_sanctuary writes a roster entry with role host or moderator
\* only for a connection that holds the host channel of that session; the
\* isHost and isModerator flags of the payload alone give no privileged role.
C34_PrivilegedRoleNeedsProof ==
    [][\A s \in Sessions, k \in Sockets :
          (/\ last'.op = "join" /\ last'.s = s /\ last'.k = k
           /\ Len(tasks') = Len(tasks) + 1)
          => \A i \in 1..Len(GetParticipants(s)') :
                (/\ GetParticipants(s)'[i].socketId = k
                 /\ GetParticipants(s)'[i].role \in {"host", "moderator"})
                => HasHostProof(k, s)
    ]_vars

\* C35: whatever way start requests of the host overlap, at most one live
\* session is saved for the scheduled sanctuary and its
\* liveSanctuarySessionId, once set, keeps its value.
C35_GoesLiveAtMostOnce ==
    [][/\ Cardinality(liveSessions') <= 1
       /\ sched.liveId # "none" => sched'.liveId = sched.liveId
    ]_vars

\* C36: the scheduled sanctuary becomes live only from status scheduled and
\* only through a start request of its recorded host; one that is ended or
\* cancelled stays so.
C36_LiveOnlyFromScheduledByHost ==
    [][(sched'.status = "live" /\ sched.status # "live")
       => /\ sched.status = "scheduled"
          /\ \E r \in Requests :
                /\ reqs[r].pc = "doc_save" /\ reqs'[r].pc = "done"
                /\ reqs[r].user = sched.hostId
    ]_vars

C38_CachedAnswerHasFinishedSends ==
    chatLog.served >= 0 => chatLog.served >= chatLog.finishedAtServe

\* C39: a socket is in the admin_panel room only if the user the socket was
\* authenticated as has the admin role, whatever user id its join_admin_panel
\* payload named.
C39_AdminPanelNeedsOwnAdminRole ==
    \A k \in Sockets :
       AdminRoom \in rooms[k] => UserRole(userId[k]) = "admin"

====
